---------------------------- MODULE Spec2Model ----------------------------
(***************************************************************************)
(* Model of the speech-translation call system:                            *)
(*   - the Socket.IO session registry and relay of node-app/server.js      *)
(*     (specifications SpecRelay and SpecRelayHist),                       *)
(*   - the per-direction utterance pipeline of TranslationEngine           *)
(*     (node-app/public/audio-processor.js) together with the client glue  *)
(*     of node-app/public/agent.js / public/caller.js that forwards its    *)
(*     results (specifications SpecPipeline and SpecPipelineEndless),      *)
(*   - the segmenter AudioProcessor of audio-processor.js (SpecSegmenter), *)
(*   - the text filter of TranslationEngine (SpecFilter), the records and  *)
(*     the translation context of one engine (SpecSession) and its         *)
(*     calculateSimilarity (SpecSimilarity),                               *)
(*   - the raw-PCM streaming endpoint of server.js (SpecStream),           *)
(*   - the call placement handlers of public/caller.js (SpecCaller),       *)
(*   - the playback of received translated audio on a page (SpecPlayback). *)
(***************************************************************************)
EXTENDS Integers, Sequences, FiniteSets, TLC

(***************************************************************************)
(* Bounds of the model.                                                    *)
(***************************************************************************)
\* number of caller.html connections (the sockets that emit call:place)
MaxCallers == 2

\* connections of agent.html pages: the sockets that emit agent:register and
\* agent:setAvailable (agent.js registerBtn / toggleAvailBtn)
AgentPages == {1, 2}

\* connections of caller.html pages: the sockets that emit call:place
CallerPages == 3..(2 + MaxCallers)

\* socket ids; Socket.IO gives every connection a fresh id
Sockets == AgentPages \cup CallerPages

\* opaque payloads carried by relayed messages
Payloads == {"p", "q"}

\* `${socket.id}_${agentId}`: the ordered pair (placing socket, agent id)
CallIdOf(s, agentId) == <<s, agentId>>

\* the placing socket and the agent of a callId
CallerOf(c) == c[1]
WorkerOf(c) == c[2]

\* the callIds call:place can form: a caller page naming a registered agent
CallIds == CallerPages \X AgentPages

\* the calls one page is told about (call:incoming / call:ringing), numbered
\* in the order of their announcement
Calls == {1, 2}

\* number of utterance buffers the recorders of one page deliver
MaxUtterances == 3

\* the TranslationEngine / AudioProcessor objects one page constructs: at most
\* one of each per call, named by the call whose accept constructed them
Engines == Calls
Recorders == Calls

VARIABLES
  \* ---- relay (server.js) ----
  sockets,      \* io.sockets.sockets: ids of the open connections
  closed,       \* ids of connections that have disconnected
  agents,       \* the Map agents: socket id -> {available, busy} (name omitted)
  rooms,        \* Socket.IO rooms named by a callId: callId -> member sockets
  emitted,      \* the events the last handler run emitted, in order
  lastOp,       \* the last handler run: event name, sending socket, argument
  terminated,   \* history (SpecRelayHist only): callIds of calls that a decline
                \* or hangup has ended and that have not been placed again
  active,       \* history (SpecRelayHist only): callIds of the calls whose
                \* caller has been sent call:accepted since their room was
                \* last empty
  \* ---- one client page (agent.js / caller.js) and its engines ----
  translatorMode,    \* config.translatorMode served by /api/config
  currentCallId,     \* global currentCallId; 0 is null, calls are numbered
  acceptEnabled,     \* !acceptBtn.disabled
  translationEngine, \* global translationEngine: an engine id; 0 is null
  audioProcessor,    \* global audioProcessor: a recorder id; 0 is null
  recorders,         \* AudioProcessors whose MediaRecorder still delivers
  engine,            \* the TranslationEngine objects: engine id ->
                     \* [enableTranslation, isProcessing, processingQueue]
  jobs,              \* runs of processOutgoingAudio past the isProcessing test
  timers,            \* armed setTimeout(..., 300) callbacks, in firing order
  pendingAudio,      \* callbacks awaiting translatedAudio.arrayBuffer()
  sent,              \* translation:text / translation:audio emitted, in order
  ended,             \* history: the calls resetCallState / cleanup has ended
  done,              \* history: ids of the utterances whose run ended with
                     \* every backend step succeeding, during their own call
  counts,            \* calls announced and utterances captured so far
  \* ---- one AudioProcessor (audio-processor.js) ----
  ap,                \* its fields: state (mediaRecorder.state; "none" before
                     \* startRecording and "dropped" after stopRecording,
                     \* while mediaRecorder is null), isRecording, hasDetectedSpeech,
                     \* isSpeaking, consecutiveSilenceCount, sinceSpeech
                     \* (currentTime - lastSpeechTime at the last tick, in ms,
                     \* capped at debounceDelay)
  stopEvent,         \* the dataavailable + stop events queued by a stop()
  awaiting,          \* onstop is suspended at `await onChunkReady(audioBlob)`
  armed,             \* armed setTimeout(..., recordingInterval) callbacks
  cycle,             \* history: speech, a reading of the recording cycle in
                     \* progress exceeded speechStartThreshold; quiet, the
                     \* consecutive readings below silenceThreshold taken
                     \* with isSpeaking set, up to the last tick
  passed,            \* history: the segments handed to onChunkReady
  \* ---- one /audio-stream connection (server.js wss.on('connection')) ----
  streamLang,        \* sourceLang of the connection, set by a config message
  pcmBuffers,        \* the frames received and not yet flushed, in order
  isTranslating,     \* a run of processFrames awaits translatePcmChunk
  frames,            \* the local `frames` of that run; <<>> when none awaits
  readyState,        \* ws.readyState
  flushInterval,     \* the setInterval(..., 1000) timer is armed
  wsOp,              \* the last handler or continuation that ran
  wsSent,            \* the messages it sent to the client, in order
  received,          \* number of binary messages received so far
  flushed,           \* history: ids of the frames a flush has submitted
  completed,         \* history: ids of the frames of the flushes whose
                     \* translatePcmChunk call resolved
  cleared,           \* history: ids of the frames `pcmBuffers = []` removed
  retry,             \* history: the frames the last no-speech flush put
                     \* back, until the next flush starts
  \* ---- one TranslationEngine's text filter (audio-processor.js) ----
  lastProcessedText,     \* this.lastProcessedText
  recentTranscriptions,  \* this.recentTranscriptions
  run,                   \* the last run of processOutgoingAudioLocal / Remote:
                         \* text, the recognized text; original and translated,
                         \* what the run returned; reason, why it was skipped;
                         \* translation, the translation a backend made of the
                         \* text; emitted, the callback of startTranslation
                         \* emitted translation:text
  transcriptionHistory,  \* this.transcriptionHistory: the records [id, text,
                         \* status] of the engine, in the order of their runs
  translationContext,    \* the context the last run passed to translate();
                         \* <<>> when it translated nothing
  failedIds,             \* history: ids of the records whose /api/translate
                         \* request failed
  lastProcessTime,       \* this.lastProcessTime: Date.now() of the run that
                         \* set it, told by the id of its record; 0 before
  \* ---- the caller page (public/caller.js) ----
  callBtn,           \* enabled: !callBtn.disabled; agentId: agentSelect has a
                     \* value, the id of an agent of the last agents:list
  placed,            \* call:place events emitted and not yet answered
  pageOp,            \* the last handler of the page that ran
  \* ---- playback of translated audio on a page (agent.js / caller.js) ----
  translatedAudioQueue,      \* global translatedAudioQueue: the clips received
                             \* and not yet started; clips are numbered in
                             \* arrival order
  isPlayingTranslatedAudio,  \* global isPlayingTranslatedAudio
  playing,                   \* the clips whose Audio element has been started
                             \* by audio.play() and has not ended
  lastPlayed,                \* history: the clip started last; 0 before any
  arrived,                   \* number of clips received so far
  \* ---- calls of TranslationEngine.calculateSimilarity ----
  simA, simB,        \* two normalized texts
  simAB,             \* calculateSimilarity(simA, simB) once it was called
  simBA              \* calculateSimilarity(simB, simA) once it was called

relayVars == <<sockets, closed, agents, rooms, emitted, lastOp>>

pipeVars == <<translatorMode, currentCallId, acceptEnabled, translationEngine,
              audioProcessor, recorders, engine, jobs,
              timers, pendingAudio, sent, ended, done, counts>>

segVars == <<ap, stopEvent, awaiting, armed, cycle, passed>>

streamVars == <<streamLang, pcmBuffers, isTranslating, frames, readyState,
                flushInterval, wsOp, wsSent, received, flushed, completed, cleared,
                retry>>

filterVars == <<lastProcessedText, recentTranscriptions, run>>

callerVars == <<callBtn, placed, pageOp>>

sessionVars == <<transcriptionHistory, translationContext, failedIds,
                 lastProcessTime>>

playVars == <<translatedAudioQueue, isPlayingTranslatedAudio, playing,
              lastPlayed, arrived>>

simVars == <<simA, simB, simAB, simBA>>

vars == <<relayVars, terminated, active, sessionVars, pipeVars, segVars,
          streamVars, filterVars, callerVars, playVars, simVars>>

\* what the steps of each part leave unchanged
notRelay == <<sessionVars, pipeVars, segVars, streamVars, filterVars, callerVars,
              playVars, simVars>>
notPipeline == <<relayVars, terminated, active, sessionVars, segVars,
                 streamVars, filterVars, callerVars,
                 playVars, simVars>>
notSegmenter == <<relayVars, terminated, active, sessionVars, pipeVars,
                  streamVars, filterVars, callerVars,
                  playVars, simVars>>
notStream == <<relayVars, terminated, active, sessionVars, pipeVars, segVars,
               filterVars, callerVars,
               playVars, simVars>>
notFilter == <<relayVars, terminated, active, sessionVars, pipeVars, segVars,
               streamVars, callerVars,
               playVars, simVars>>
notCaller == <<relayVars, terminated, active, sessionVars, segVars, streamVars,
               filterVars,
               playVars, simVars>>
notSession == <<relayVars, terminated, active, pipeVars, segVars, streamVars,
                callerVars,
                playVars, simVars>>
notPlayback == <<relayVars, terminated, active, sessionVars, segVars, streamVars,
                 filterVars, callerVars, simVars>>
notSimilarity == <<relayVars, terminated, active, sessionVars, pipeVars,
                   segVars, streamVars, filterVars, callerVars, playVars>>

\* new TranslationEngine(myLanguage, remoteLanguage, enableTranslation): the
\* fields the pipeline reads; enableTranslation stands for the test
\* this.enableTranslation && this.myLanguage !== this.remoteLanguage
NewEngine(enableTranslation) ==
  [enableTranslation |-> enableTranslation,
   isProcessing |-> FALSE,
   processingQueue |-> <<>>]

\* the page after load: no call, no engine, nothing recorded
PageLoaded ==
  /\ currentCallId = 0
  /\ acceptEnabled = FALSE
  /\ translationEngine = 0
  /\ audioProcessor = 0
  /\ recorders = {}
  /\ engine = [e \in Engines |-> NewEngine(FALSE)]
  /\ jobs = {}
  /\ timers = <<>>
  /\ pendingAudio = {}
  /\ sent = <<>>
  /\ ended = {}
  /\ done = {}
  /\ counts = [calls |-> 0, utterances |-> 0]
  /\ translatedAudioQueue = <<>>
  /\ isPlayingTranslatedAudio = FALSE
  /\ playing = {}
  /\ lastPlayed = 0
  /\ arrived = 0

\* new AudioProcessor(): nothing recorded, no recorder yet
Constructed ==
  /\ ap = [state |-> "none", isRecording |-> FALSE, hasDetectedSpeech |-> FALSE,
           isSpeaking |-> FALSE, consecutiveSilenceCount |-> 0, sinceSpeech |-> 0]
  /\ stopEvent = <<>>
  /\ awaiting = <<>>
  /\ armed = 0
  /\ cycle = [speech |-> FALSE, quiet |-> 0]
  /\ passed = {}

\* wss.on('connection'): the variables of a new /audio-stream connection
Connected ==
  /\ streamLang = "en"
  /\ pcmBuffers = <<>>
  /\ isTranslating = FALSE
  /\ frames = <<>>
  /\ readyState = "OPEN"
  /\ flushInterval = TRUE
  /\ wsOp = "connection"
  /\ wsSent = <<>>
  /\ received = 0
  /\ flushed = {}
  /\ completed = {}
  /\ cleared = {}
  /\ retry = <<>>

\* the text filter of a new TranslationEngine
NoRun == [text |-> "", original |-> "", translated |-> "", reason |-> "none",
          translation |-> "", emitted |-> FALSE]

EngineConstructed ==
  /\ lastProcessedText = ""
  /\ recentTranscriptions = <<>>
  /\ run = NoRun
  /\ transcriptionHistory = <<>>
  /\ translationContext = <<>>
  /\ failedIds = {}
  /\ lastProcessTime = 0

\* calculateSimilarity has not been called
NoSimilarity == [num |-> -1, den |-> 1]

NothingCompared ==
  /\ simA = ""
  /\ simB = ""
  /\ simAB = NoSimilarity
  /\ simBA = NoSimilarity

\* caller.js after load: agentSelect is empty until the first agents:list
CallerLoaded ==
  /\ callBtn = [enabled |-> FALSE, agentId |-> FALSE]
  /\ placed = 0
  /\ pageOp = "load"

(***************************************************************************)
(* Relay: registry helpers                                                 *)
(***************************************************************************)
NoOp == [op |-> "none", sock |-> 0, arg |-> <<>>]

\* agents.get(id) is defined
HasAgent(id) == id \in DOMAIN agents

\* currentAgents(): per agent, available = !!a.available && !a.busy
currentAgents == [id \in DOMAIN agents |-> agents[id].available /\ ~agents[id].busy]

\* one emission: the emitter used (io.emit, socket.emit, socket.to, io.to),
\* the event name, the sockets it reaches and its body
Msg(via, ev, to, body) == [via |-> via, ev |-> ev, to |-> to, body |-> body]

\* mutant of broadcastAgents: the list is the one of before the operation
broadcastStale(ags, socks) ==
  Msg("io.emit", "agents:list", socks, currentAgents)

\* broadcastAgents() over registry value ags: io.emit('agents:list', list)
broadcastAgents(ags, socks) ==
  Msg("io.emit", "agents:list", socks,
      [id \in DOMAIN ags |-> ags[id].available /\ ~ags[id].busy])

\* sendAgentsList(sock): sock.emit('agents:list', list)
sendAgentsList(s) == Msg("socket.emit", "agents:list", {s}, currentAgents)

\* mutant of OthersIn: the event goes to the whole room, sender included
WholeRoom(callId, s) == rooms[callId]

\* socket.to(room): the members of the room except the sender
OthersIn(callId, s) == rooms[callId] \ {s}

\* io.socketsLeave(callId): every socket leaves the room
socketsLeave(callId) == [rooms EXCEPT ![callId] = {}]

\* mutant of join: the socket does not enter the room
joinNothing(room, s) == room

\* sock.join(room) for the socket with id s, when io.sockets.sockets has one
join(room, s) == room \cup ({s} \cap sockets)

\* mutant of Unavailable: the busy flag is not consulted
UnavailableIgnoringBusy(a) == ~a.available

\* call:place refuses an agent that is not available or is busy
Unavailable(a) == ~a.available \/ a.busy

(***************************************************************************)
(* Relay: handlers                                                         *)
(***************************************************************************)
\* ids are fresh labels: pages of one kind take their ids in increasing order
NextId(s) ==
  \A t \in Sockets : (t < s /\ (t \in AgentPages <=> s \in AgentPages))
                         => t \in sockets \cup closed

\* io.on('connection'): a fresh id connects and is sent the list
Connection(s) ==
  /\ s \notin sockets \cup closed
  /\ NextId(s)
  /\ sockets' = sockets \cup {s}
  /\ emitted' = <<sendAgentsList(s)>>
  /\ lastOp' = [op |-> "connection", sock |-> s, arg |-> <<>>]
  /\ UNCHANGED <<closed, agents, rooms>>

\* socket.on('agents:request')
AgentsRequest(s) ==
  /\ s \in sockets
  /\ emitted' = <<sendAgentsList(s)>>
  /\ lastOp' = [op |-> "agents:request", sock |-> s, arg |-> <<>>]
  /\ UNCHANGED <<sockets, closed, agents, rooms>>

\* socket.on('agent:register')
AgentRegister(s) ==
  /\ s \in sockets
  /\ agents' = [id \in DOMAIN agents \cup {s} |->
                  IF id = s THEN [available |-> TRUE, busy |-> FALSE]
                            ELSE agents[id]]
  /\ emitted' = <<broadcastAgents(agents', sockets)>>
  /\ lastOp' = [op |-> "agent:register", sock |-> s, arg |-> <<>>]
  /\ UNCHANGED <<sockets, closed, rooms>>

\* mutant of AgentSetAvailable: the entry is written anew as agent:register
\* writes it, with busy cleared
SetAvailableClearsBusy(s, available) ==
  /\ s \in sockets
  /\ agents' = IF HasAgent(s)
               THEN [agents EXCEPT ![s] = [available |-> available, busy |-> FALSE]]
               ELSE agents
  /\ emitted' = <<broadcastAgents(agents', sockets)>>
  /\ lastOp' = [op |-> "agent:setAvailable", sock |-> s, arg |-> <<available>>]
  /\ UNCHANGED <<sockets, closed, rooms>>

\* socket.on('agent:setAvailable')
AgentSetAvailable(s, available) ==
  /\ s \in sockets
  /\ agents' = IF HasAgent(s) THEN [agents EXCEPT ![s].available = available]
                              ELSE agents
  /\ emitted' = <<broadcastAgents(agents', sockets)>>
  /\ lastOp' = [op |-> "agent:setAvailable", sock |-> s, arg |-> <<available>>]
  /\ UNCHANGED <<sockets, closed, rooms>>

\* socket.on('call:place')
CallPlace(s, agentId, offer) ==
  /\ s \in sockets
  /\ lastOp' = [op |-> "call:place", sock |-> s, arg |-> <<agentId>>]
  /\ IF ~HasAgent(agentId) THEN
       /\ emitted' = <<Msg("socket.emit", "call:error", {s}, "Agent not found or disconnected.")>>
       /\ UNCHANGED <<agents, rooms>>
     ELSE IF Unavailable(agents[agentId]) THEN
       /\ emitted' = <<Msg("socket.emit", "call:error", {s}, "Agent is not available.")>>
       /\ UNCHANGED <<agents, rooms>>
     ELSE
       /\ agents' = [agents EXCEPT ![agentId].busy = TRUE]
       /\ rooms' = [rooms EXCEPT ![CallIdOf(s, agentId)] = join(join(@, s), agentId)]
       /\ emitted' = << broadcastAgents(agents', sockets),
                        Msg("io.to", "call:incoming", {agentId} \cap sockets,
                            [callId |-> CallIdOf(s, agentId), fromSocketId |-> s,
                             offer |-> offer]),
                        Msg("socket.emit", "call:ringing", {s}, [callId |-> CallIdOf(s, agentId)]) >>
  /\ UNCHANGED <<sockets, closed>>

\* the agentLanguage a call:accept may carry; "" stands for an absent one
Languages == {"Spanish", ""}

\* socket.on('call:accept'): agentLanguage || 'English'
CallAccept(s, callId, answer, agentLanguage) ==
  /\ s \in sockets
  /\ emitted' = <<Msg("socket.to", "call:accepted", OthersIn(callId, s),
                      [answer |-> answer,
                       agentLanguage |-> IF agentLanguage = "" THEN "English"
                                         ELSE agentLanguage])>>
  /\ lastOp' = [op |-> "call:accept", sock |-> s, arg |-> callId,
                payload |-> [answer |-> answer, agentLanguage |-> agentLanguage]]
  /\ UNCHANGED <<sockets, closed, agents, rooms>>

\* the reasons a call:decline may carry; "" stands for an absent reason
DeclineReasons == {"Agent declined", ""}

\* socket.on('call:decline')
CallDecline(s, callId, reason) ==
  /\ s \in sockets
  /\ agents' = IF HasAgent(s) THEN [agents EXCEPT ![s].busy = FALSE] ELSE agents
  /\ emitted' = <<Msg("socket.to", "call:declined", OthersIn(callId, s),
                      IF reason = "" THEN "Declined" ELSE reason)>>
                \o (IF HasAgent(s) THEN <<broadcastAgents(agents', sockets)>> ELSE <<>>)
  /\ rooms' = socketsLeave(callId)
  /\ lastOp' = [op |-> "call:decline", sock |-> s, arg |-> callId]
  /\ UNCHANGED <<sockets, closed>>

\* socket.on('webrtc:ice')
WebrtcIce(s, callId, candidate) ==
  /\ s \in sockets
  /\ emitted' = <<Msg("socket.to", "webrtc:ice", OthersIn(callId, s), candidate)>>
  /\ lastOp' = [op |-> "webrtc:ice", sock |-> s, arg |-> callId, payload |-> candidate]
  /\ UNCHANGED <<sockets, closed, agents, rooms>>

\* socket.on('call:hangup')
CallHangup(s, callId) ==
  /\ s \in sockets
  /\ rooms' = socketsLeave(callId)
  /\ agents' = IF HasAgent(s) THEN [agents EXCEPT ![s].busy = FALSE] ELSE agents
  /\ emitted' = <<Msg("socket.to", "call:hangup", OthersIn(callId, s), <<>>)>>
                \o (IF HasAgent(s) THEN <<broadcastAgents(agents', sockets)>> ELSE <<>>)
  /\ lastOp' = [op |-> "call:hangup", sock |-> s, arg |-> callId]
  /\ UNCHANGED <<sockets, closed>>

\* socket.on('translation:text')
TranslationText(s, callId, payload) ==
  /\ s \in sockets
  /\ emitted' = <<Msg("socket.to", "translation:text", OthersIn(callId, s), payload)>>
  /\ lastOp' = [op |-> "translation:text", sock |-> s, arg |-> callId, payload |-> payload]
  /\ UNCHANGED <<sockets, closed, agents, rooms>>

\* socket.on('translation:audio')
TranslationAudio(s, callId, payload) ==
  /\ s \in sockets
  /\ emitted' = <<Msg("socket.to", "translation:audio", OthersIn(callId, s), payload)>>
  /\ lastOp' = [op |-> "translation:audio", sock |-> s, arg |-> callId, payload |-> payload]
  /\ UNCHANGED <<sockets, closed, agents, rooms>>

\* socket.on('disconnect'); Socket.IO has removed the socket from its rooms
Disconnect(s) ==
  /\ s \in sockets
  /\ sockets' = sockets \ {s}
  /\ closed' = closed \cup {s}
  /\ rooms' = [c \in CallIds |-> rooms[c] \ {s}]
  /\ agents' = [id \in DOMAIN agents \ {s} |-> agents[id]]
  /\ emitted' = IF HasAgent(s) THEN <<broadcastAgents(agents', sockets')>> ELSE <<>>
  /\ lastOp' = [op |-> "disconnect", sock |-> s, arg |-> <<>>]

\* the handler returns to the event loop: its emissions have left the process
Return ==
  /\ lastOp # NoOp
  /\ lastOp' = NoOp
  /\ emitted' = <<>>
  /\ UNCHANGED <<sockets, closed, agents, rooms>>

RelayStart ==
  /\ sockets = {}
  /\ closed = {}
  /\ agents = <<>>
  /\ rooms = [c \in CallIds |-> {}]
  /\ terminated = {}
  /\ active = {}
  /\ emitted = <<>>
  /\ lastOp = NoOp

RelayInit ==
  /\ RelayStart
  /\ translatorMode = "local"
  /\ PageLoaded
  /\ Constructed
  /\ Connected
  /\ EngineConstructed
  /\ CallerLoaded
  /\ NothingCompared

\* Node runs one handler at a time, to completion: the event loop dispatches
\* the next incoming event only after the running handler has returned
RelayNext ==
  \/ lastOp = NoOp /\ (\E s \in Sockets : Connection(s)) /\ UNCHANGED <<terminated, active, notRelay>>
  \/ lastOp = NoOp /\ (\E s \in Sockets : AgentsRequest(s)) /\ UNCHANGED <<terminated, active, notRelay>>
  \/ lastOp = NoOp /\ (\E s \in AgentPages : AgentRegister(s)) /\ UNCHANGED <<terminated, active, notRelay>>
  \/ lastOp = NoOp /\ (\E s \in AgentPages, b \in BOOLEAN : AgentSetAvailable(s, b)) /\ UNCHANGED <<terminated, active, notRelay>>
  \/ lastOp = NoOp /\ (\E s \in CallerPages, a \in Sockets, p \in Payloads : CallPlace(s, a, p)) /\ UNCHANGED <<terminated, active, notRelay>>
  \/ lastOp = NoOp /\ (\E s \in Sockets, c \in CallIds, p \in Payloads, l \in Languages : CallAccept(s, c, p, l)) /\ UNCHANGED <<terminated, active, notRelay>>
  \/ lastOp = NoOp /\ (\E s \in Sockets, c \in CallIds, r \in DeclineReasons : CallDecline(s, c, r)) /\ UNCHANGED <<terminated, active, notRelay>>
  \/ lastOp = NoOp /\ (\E s \in Sockets, c \in CallIds, p \in Payloads : WebrtcIce(s, c, p)) /\ UNCHANGED <<terminated, active, notRelay>>
  \/ lastOp = NoOp /\ (\E s \in Sockets, c \in CallIds : CallHangup(s, c)) /\ UNCHANGED <<terminated, active, notRelay>>
  \/ lastOp = NoOp /\ (\E s \in Sockets, c \in CallIds, p \in Payloads : TranslationText(s, c, p)) /\ UNCHANGED <<terminated, active, notRelay>>
  \/ lastOp = NoOp /\ (\E s \in Sockets, c \in CallIds, p \in Payloads : TranslationAudio(s, c, p)) /\ UNCHANGED <<terminated, active, notRelay>>
  \/ lastOp = NoOp /\ (\E s \in Sockets : Disconnect(s)) /\ UNCHANGED <<terminated, active, notRelay>>
  \/ Return /\ UNCHANGED <<terminated, active, notRelay>>

SpecRelay == RelayInit /\ [][RelayNext]_vars

(***************************************************************************)
(* The relay with the history of ended calls.  The server keeps no call    *)
(* object: a call exists while the room named by its callId has members,   *)
(* and call:decline / call:hangup end it by emptying the room.             *)
(***************************************************************************)
History ==
  LET endedNow == IF lastOp'.op \in {"call:decline", "call:hangup"}
                     /\ rooms[lastOp'.arg] # {}
                  THEN {lastOp'.arg} ELSE {}
      acceptedNow == IF lastOp'.op = "call:accept"
                        /\ CallerOf(lastOp'.arg) \in emitted'[1].to
                     THEN {lastOp'.arg} ELSE {}
  IN  /\ terminated' = {c \in terminated \cup endedNow : rooms'[c] = {}}
      /\ active' = {c \in active \cup acceptedNow : rooms'[c] # {}}
      /\ UNCHANGED notRelay

RelayHistNext ==
  \/ lastOp = NoOp /\ (\E s \in Sockets : Connection(s)) /\ History
  \/ lastOp = NoOp /\ (\E s \in Sockets : AgentsRequest(s)) /\ History
  \/ lastOp = NoOp /\ (\E s \in AgentPages : AgentRegister(s)) /\ History
  \/ lastOp = NoOp /\ (\E s \in AgentPages, b \in BOOLEAN : AgentSetAvailable(s, b)) /\ History
  \/ lastOp = NoOp /\ (\E s \in CallerPages, a \in Sockets, p \in Payloads : CallPlace(s, a, p)) /\ History
  \/ lastOp = NoOp /\ (\E s \in Sockets, c \in CallIds, p \in Payloads, l \in Languages : CallAccept(s, c, p, l)) /\ History
  \/ lastOp = NoOp /\ (\E s \in Sockets, c \in CallIds, r \in DeclineReasons : CallDecline(s, c, r)) /\ History
  \/ lastOp = NoOp /\ (\E s \in Sockets, c \in CallIds, p \in Payloads : WebrtcIce(s, c, p)) /\ History
  \/ lastOp = NoOp /\ (\E s \in Sockets, c \in CallIds : CallHangup(s, c)) /\ History
  \/ lastOp = NoOp /\ (\E s \in Sockets, c \in CallIds, p \in Payloads : TranslationText(s, c, p)) /\ History
  \/ lastOp = NoOp /\ (\E s \in Sockets, c \in CallIds, p \in Payloads : TranslationAudio(s, c, p)) /\ History
  \/ lastOp = NoOp /\ (\E s \in Sockets : Disconnect(s)) /\ History
  \/ Return /\ UNCHANGED <<terminated, active, notRelay>>

SpecRelayHist == RelayInit /\ [][RelayHistNext]_vars

(***************************************************************************)
(* The utterance pipeline of one page: TranslationEngine.processOutgoing-  *)
(* Audio with its queue and 300 ms timer, the recorder callback of         *)
(* startTranslation that forwards a result to the relay, and the page's    *)
(* call handlers.  An utterance buffer is [id, call]: ids number the       *)
(* buffers in capture order, call is the call during which it was captured.*)
(***************************************************************************)
\* { original: '', translated: '', audioBlob: null }
EmptyResult == [translated |-> "", audioBlob |-> FALSE]

\* how the backend calls of one run end
Outcomes == {"ok", "skipped", "stt_failed", "translate_failed", "tts_failed",
             "translate_and_tts_failed"}

\* processOutgoingAudioLocal: transcribe() returns '' on an error and the
\* empty text is skipped; translate() returns its input text on an error;
\* synthesizeSpeech() returns null on an error
processOutgoingAudioLocal(outcome) ==
  IF outcome \in {"stt_failed", "skipped"} THEN EmptyResult
  ELSE [translated |-> IF outcome \in {"translate_failed", "translate_and_tts_failed"}
                       THEN "source" ELSE "translation",
        audioBlob |-> outcome \in {"ok", "translate_failed"}]

\* processOutgoingAudioRemote: a failed request throws and processOutgoingAudio
\* catches it; data.translated || '' and data.audioBase64 may be missing
processOutgoingAudioRemote(outcome) ==
  IF outcome \in {"stt_failed", "skipped"} THEN EmptyResult
  ELSE [translated |-> IF outcome \in {"translate_failed", "translate_and_tts_failed"}
                       THEN "" ELSE "translation",
        audioBlob |-> outcome \in {"ok", "translate_failed"}]

\* mutant of Busy: the isProcessing flag is not consulted
NeverBusy(e) == FALSE

\* if (this.isProcessing)
Busy(e) == engine[e].isProcessing

\* processOutgoingAudio(audioBlob) on engine e up to its first await; cb is
\* the recorder whose callback awaits the result, 0 when the 300 ms timer
\* made the call and nothing awaits it
processOutgoingAudio(e, blob, cb) ==
  IF ~engine[e].enableTranslation
  THEN UNCHANGED <<engine, jobs>>
  ELSE IF Busy(e)
  THEN /\ engine' = [engine EXCEPT ![e].processingQueue = Append(@, blob)]
       /\ UNCHANGED jobs
  ELSE /\ engine' = [engine EXCEPT ![e].isProcessing = TRUE]
       /\ jobs' = jobs \cup {[e |-> e, blob |-> blob, cb |-> cb]}

\* the recorder's onstop handler awaits onChunkReady before it restarts the
\* MediaRecorder: a recorder delivers nothing while its callback is pending
Blocked(r) ==
  \/ \E j \in jobs : j.cb = r
  \/ \E p \in pendingAudio : p.cb = r

\* socket.on('call:incoming') of agent.js, socket.on('call:ringing') of
\* caller.js: the page learns the callId of a new call
CallIncoming ==
  /\ counts.calls + 1 \in Calls
  /\ counts' = [counts EXCEPT !.calls = @ + 1]
  /\ currentCallId' = counts.calls + 1
  /\ acceptEnabled' = TRUE
  /\ UNCHANGED <<translatorMode, translationEngine, audioProcessor, recorders,
                 engine, jobs, timers, pendingAudio, sent, ended, done>>

\* acceptBtn.onclick of agent.js, socket.on('call:accepted') of caller.js: a
\* new engine replaces the global one and startTranslation starts a new
\* recorder; an earlier recorder is not stopped
Accept(enableTranslation) ==
  /\ currentCallId # 0
  /\ acceptEnabled
  /\ acceptEnabled' = FALSE
  /\ translationEngine' = currentCallId
  /\ engine' = [engine EXCEPT ![currentCallId] = NewEngine(enableTranslation)]
  /\ IF enableTranslation
     THEN /\ audioProcessor' = currentCallId
          /\ recorders' = recorders \cup {currentCallId}
     ELSE UNCHANGED <<audioProcessor, recorders>>
  /\ UNCHANGED <<translatorMode, currentCallId, jobs, timers, pendingAudio,
                 sent, ended, done, counts>>

\* mediaRecorder.onstop of recorder r with a buffer that passed the size and
\* speech tests: the callback of startTranslation calls
\* translationEngine.processOutgoingAudio(audioBlob).  With the global engine
\* null the call throws, onstop rejects and the recorder is never restarted.
Submit(r) ==
  /\ r \in recorders
  /\ ~Blocked(r)
  /\ IF translationEngine = 0
     THEN /\ recorders' = recorders \ {r}
          /\ UNCHANGED <<engine, jobs, counts>>
     ELSE /\ counts.utterances < MaxUtterances
          /\ counts' = [counts EXCEPT !.utterances = @ + 1]
          /\ processOutgoingAudio(translationEngine,
                                  [id |-> counts.utterances + 1, call |-> currentCallId], r)
          /\ UNCHANGED recorders
  /\ UNCHANGED <<translatorMode, currentCallId, acceptEnabled, translationEngine,
                 audioProcessor, timers, pendingAudio, sent, ended, done>>

\* processNextInQueue: shift the queue and arm the 300 ms timer
processNextInQueue(e) ==
  LET q == engine[e].processingQueue
  IN  /\ engine' = [engine EXCEPT ![e].isProcessing = FALSE,
                                  ![e].processingQueue = IF q = <<>> THEN q ELSE Tail(q)]
      /\ timers' = IF q = <<>> THEN timers
                   ELSE Append(timers, [e |-> e, blob |-> Head(q)])

\* run j of processOutgoingAudio settles: the result is computed, the finally
\* block clears isProcessing and calls processNextInQueue, and the awaiting
\* callback (if any) resumes in the same turn of the event loop and emits
\* translation:text when (translated && currentCallId)
Finish(j, outcome) ==
  LET result == IF translatorMode = "remote"
                THEN processOutgoingAudioRemote(outcome)
                ELSE processOutgoingAudioLocal(outcome)
      forwarded == j.cb # 0 /\ result.translated # "" /\ currentCallId # 0
  IN  /\ j \in jobs
      /\ jobs' = jobs \ {j}
      /\ processNextInQueue(j.e)
      /\ sent' = IF forwarded
                 THEN Append(sent, [ev |-> "translation:text", callId |-> currentCallId,
                                    id |-> j.blob.id, translated |-> result.translated,
                                    audioBlob |-> result.audioBlob,
                                    afterEnd |-> j.blob.call \in ended])
                 ELSE sent
      /\ pendingAudio' = IF forwarded /\ result.audioBlob
                         THEN pendingAudio \cup {[cb |-> j.cb, id |-> j.blob.id,
                                                  translated |-> result.translated,
                                                  call |-> j.blob.call]}
                         ELSE pendingAudio
      /\ done' = IF outcome = "ok" /\ currentCallId = j.blob.call
                    /\ translationEngine = j.e
                 THEN done \cup {j.blob.id} ELSE done
      /\ UNCHANGED <<translatorMode, currentCallId, acceptEnabled, translationEngine,
                     audioProcessor, recorders, ended, counts>>

\* the 300 ms timer armed by processNextInQueue fires: it calls
\* processOutgoingAudio(nextBlob) and drops the promise it returns
TimerFire ==
  /\ timers # <<>>
  /\ timers' = Tail(timers)
  /\ processOutgoingAudio(Head(timers).e, Head(timers).blob, 0)
  /\ UNCHANGED <<translatorMode, currentCallId, acceptEnabled, translationEngine,
                 audioProcessor, recorders, pendingAudio, sent, ended, done, counts>>

\* translatedAudio.arrayBuffer() resolves: the callback emits
\* translation:audio with the currentCallId of that moment
AudioSend(p) ==
  /\ p \in pendingAudio
  /\ pendingAudio' = pendingAudio \ {p}
  /\ sent' = Append(sent, [ev |-> "translation:audio", callId |-> currentCallId,
                           id |-> p.id, translated |-> p.translated,
                           audioBlob |-> TRUE, afterEnd |-> p.call \in ended])
  /\ UNCHANGED <<translatorMode, currentCallId, acceptEnabled, translationEngine,
                 audioProcessor, recorders, engine, jobs, timers, ended, done, counts>>

\* resetCallState of agent.js, cleanup of caller.js (hangup or decline, local
\* or remote): the globals are nulled and the global recorder is stopped
resetCallState ==
  /\ currentCallId # 0
  /\ currentCallId' = 0
  /\ acceptEnabled' = FALSE
  /\ translationEngine' = 0
  /\ audioProcessor' = 0
  /\ recorders' = recorders \ {audioProcessor}
  /\ ended' = ended \cup {currentCallId}
  /\ UNCHANGED <<translatorMode, engine, jobs, timers, pendingAudio, sent, done,
                 counts>>

PipelineInit ==
  /\ RelayStart
  /\ translatorMode \in {"local", "remote"}
  /\ PageLoaded
  /\ Constructed
  /\ Connected
  /\ EngineConstructed
  /\ CallerLoaded
  /\ NothingCompared

\* the page runs one handler or promise continuation at a time
PipelineNext ==
  \/ CallIncoming /\ UNCHANGED notPipeline
  \/ (\E b \in BOOLEAN : Accept(b)) /\ UNCHANGED notPipeline
  \/ (\E r \in Recorders : Submit(r)) /\ UNCHANGED notPipeline
  \/ (\E j \in jobs, o \in Outcomes : Finish(j, o)) /\ UNCHANGED notPipeline
  \/ TimerFire /\ UNCHANGED notPipeline
  \/ (\E p \in pendingAudio : AudioSend(p)) /\ UNCHANGED notPipeline
  \/ resetCallState /\ UNCHANGED notPipeline

SpecPipeline == PipelineInit /\ [][PipelineNext]_vars

(***************************************************************************)
(* The segmenter: one AudioProcessor.  MediaRecorder.stop() makes the      *)
(* recorder inactive at once and queues its dataavailable and stop events; *)
(* the 150 ms interval of startSilenceDetection and the recordingInterval  *)
(* timers are events of their own.                                         *)
(***************************************************************************)
\* AudioProcessor.constructor
silenceThreshold == -55
speechStartThreshold == -48
requiredSilenceCount == 15
debounceDelay == 1200
minAudioSize == 3000

\* setInterval(..., 150) of startSilenceDetection
TickMs == 150

\* getAudioLevel() readings in dB: silence, between the two thresholds, speech
Levels == {-100, -50, -40}

\* event.data.size of the dataavailable event of one recording cycle
Sizes == {0, 2000, 3000, 4000}

\* the recordingInterval timers that may be armed at once
MaxArmed == 2

\* mediaRecorder.stop() while recording: the cycle's data and what was read
\* during it travel with the queued events
Stopped(by, size) == <<[by |-> by, size |-> size, speech |-> cycle.speech]>>

\* mutant of Restart: the recorder is restarted and no timer is armed
RestartUnarmed(a) ==
  IF a.isRecording /\ a.state = "inactive"
  THEN /\ ap' = [a EXCEPT !.state = "recording"]
       /\ cycle' = [cycle EXCEPT !.speech = FALSE]
       /\ UNCHANGED armed
  ELSE /\ ap' = a
       /\ UNCHANGED <<armed, cycle>>

\* mediaRecorder.start() followed by setTimeout(..., this.recordingInterval)
Restart(a) ==
  IF a.isRecording /\ a.state = "inactive"
  THEN /\ ap' = [a EXCEPT !.state = "recording"]
       /\ armed' = IF armed < MaxArmed THEN armed + 1 ELSE armed
       /\ cycle' = [cycle EXCEPT !.speech = FALSE]
  ELSE /\ ap' = a
       /\ UNCHANGED <<armed, cycle>>

\* startRecording(stream, onChunkReady) on a new AudioProcessor
startRecording ==
  /\ ap.state = "none"
  /\ ~ap.isRecording
  /\ ap' = [ap EXCEPT !.state = "recording", !.isRecording = TRUE,
                      !.consecutiveSilenceCount = 0, !.isSpeaking = FALSE,
                      !.sinceSpeech = 0]
  /\ armed' = armed + 1
  /\ cycle' = [speech |-> FALSE, quiet |-> 0]
  /\ UNCHANGED <<stopEvent, awaiting, passed>>

\* mutant of StillSpeaking: the close leaves isSpeaking set
KeepsSpeaking(speaking, close) == speaking

\* isSpeaking after a run of the interval callback: the close clears it
StillSpeaking(speaking, close) == speaking /\ ~close

\* mutant of SilenceCount: every reading that is not speech is counted
CountsBand(level) ==
  IF level > speechStartThreshold THEN 0
  ELSE IF ap.isSpeaking THEN ap.consecutiveSilenceCount + 1
  ELSE ap.consecutiveSilenceCount

\* consecutiveSilenceCount after the first `if` of the interval callback
SilenceCount(level) ==
  IF level > speechStartThreshold THEN 0
  ELSE IF level < silenceThreshold /\ ap.isSpeaking
       THEN ap.consecutiveSilenceCount + 1
  ELSE ap.consecutiveSilenceCount

\* one run of the interval callback of startSilenceDetection with reading
\* level; size is the data the recorder holds if this run stops it
Tick(level, size) ==
  LET loud == level > speechStartThreshold
      quiet == level < silenceThreshold
      since == IF loud THEN 0
               ELSE IF ap.sinceSpeech + TickMs < debounceDelay
                    THEN ap.sinceSpeech + TickMs ELSE debounceDelay
      speaking == ap.isSpeaking \/ loud
      count == SilenceCount(level)
      close == speaking /\ count >= requiredSilenceCount /\ since >= debounceDelay
      stops == close /\ ap.state = "recording"
  IN  /\ ap.isRecording
      /\ ap' = [ap EXCEPT !.hasDetectedSpeech = @ \/ loud,
                          !.isSpeaking = StillSpeaking(speaking, close),
                          !.consecutiveSilenceCount = IF close THEN 0 ELSE count,
                          !.sinceSpeech = since,
                          !.state = IF stops THEN "inactive" ELSE @]
      /\ stopEvent' = IF stops THEN Stopped("silence", size) ELSE stopEvent
      /\ cycle' = [speech |-> cycle.speech \/ (loud /\ ap.state = "recording"),
                   quiet |-> IF quiet /\ ap.isSpeaking
                             THEN (IF cycle.quiet < requiredSilenceCount
                                   THEN cycle.quiet + 1 ELSE cycle.quiet)
                             ELSE 0]
      /\ UNCHANGED <<awaiting, armed, passed>>

\* a recordingInterval timer fires
IntervalElapsed(size) ==
  /\ armed > 0
  /\ armed' = armed - 1
  /\ IF ap.state = "recording"
     THEN /\ ap' = [ap EXCEPT !.state = "inactive"]
          /\ stopEvent' = Stopped("interval", size)
     ELSE UNCHANGED <<ap, stopEvent>>
  /\ UNCHANGED <<awaiting, cycle, passed>>

\* mediaRecorder.onstop up to its await: a non-empty segment that is large
\* enough while hasDetectedSpeech is set goes to onChunkReady
onstop ==
  /\ stopEvent # <<>>
  /\ awaiting = <<>>
  /\ stopEvent' = <<>>
  /\ LET seg == stopEvent[1]
     IN  IF seg.size > 0 /\ seg.size > minAudioSize /\ ap.hasDetectedSpeech
         THEN /\ awaiting' = <<seg>>
              /\ passed' = passed \cup {[size |-> seg.size, speech |-> seg.speech]}
              /\ UNCHANGED <<ap, armed, cycle>>
         ELSE /\ Restart(IF seg.size > 0
                         THEN [ap EXCEPT !.hasDetectedSpeech = FALSE] ELSE ap)
              /\ UNCHANGED <<awaiting, passed>>

\* onChunkReady resolves: onstop resumes, clears hasDetectedSpeech, restarts
onChunkReadyResolved ==
  /\ awaiting # <<>>
  /\ awaiting' = <<>>
  /\ Restart([ap EXCEPT !.hasDetectedSpeech = FALSE])
  /\ UNCHANGED <<stopEvent, passed>>

\* onChunkReady rejects: onstop ends with the exception, nothing is restarted
onChunkReadyRejected ==
  /\ awaiting # <<>>
  /\ awaiting' = <<>>
  /\ UNCHANGED <<ap, stopEvent, armed, cycle, passed>>

\* stopRecording(): the interval is cleared, the recorder stopped and dropped
stopRecording(size) ==
  /\ ap.isRecording
  /\ ap' = [ap EXCEPT !.isRecording = FALSE, !.state = "dropped"]
  /\ stopEvent' = IF ap.state = "recording" THEN Stopped("stopRecording", size)
                  ELSE stopEvent
  /\ UNCHANGED <<awaiting, armed, cycle, passed>>

SegmenterInit ==
  /\ RelayStart
  /\ translatorMode = "local"
  /\ PageLoaded
  /\ Constructed
  /\ Connected
  /\ EngineConstructed
  /\ CallerLoaded
  /\ NothingCompared

SegmenterNext ==
  \/ startRecording /\ UNCHANGED notSegmenter
  \/ (\E l \in Levels, z \in Sizes : Tick(l, z)) /\ UNCHANGED notSegmenter
  \/ (\E z \in Sizes : IntervalElapsed(z)) /\ UNCHANGED notSegmenter
  \/ onstop /\ UNCHANGED notSegmenter
  \/ onChunkReadyResolved /\ UNCHANGED notSegmenter
  \/ onChunkReadyRejected /\ UNCHANGED notSegmenter
  \/ (\E z \in Sizes : stopRecording(z)) /\ UNCHANGED notSegmenter

SpecSegmenter == SegmenterInit /\ [][SegmenterNext]_vars

(***************************************************************************)
(* JavaScript strings.  A text is a string; SubSeq, Len and \o act on its  *)
(* characters.                                                             *)
(***************************************************************************)
\* String.prototype.toLowerCase
toLowerCase(str) ==
  LET upper == "ABCDEFGHIJKLMNOPQRSTUVWXYZ"
      lower == "abcdefghijklmnopqrstuvwxyz"
      char(c) ==
        IF \E i \in 1..Len(upper) : SubSeq(upper, i, i) = c
        THEN LET i == CHOOSE k \in 1..Len(upper) : SubSeq(upper, k, k) = c
             IN  SubSeq(lower, i, i)
        ELSE c
      RECURSIVE each(_)
      each(s) ==
        IF s = "" THEN "" ELSE char(SubSeq(s, 1, 1)) \o each(SubSeq(s, 2, Len(s)))
  IN  each(str)

\* String.prototype.trim (the texts of the model hold no other white space)
trim(str) ==
  LET RECURSIVE trimStart(_)
      trimStart(s) ==
        IF s # "" /\ SubSeq(s, 1, 1) = " "
        THEN trimStart(SubSeq(s, 2, Len(s))) ELSE s
      RECURSIVE trimEnd(_)
      trimEnd(s) ==
        IF s # "" /\ SubSeq(s, Len(s), Len(s)) = " "
        THEN trimEnd(SubSeq(s, 1, Len(s) - 1)) ELSE s
  IN  trimEnd(trimStart(str))

\* String.prototype.includes
includes(str, search) ==
  \E i \in 1..(Len(str) - Len(search) + 1) :
    SubSeq(str, i, i + Len(search) - 1) = search

\* str.split(' '): the pieces between single spaces, empty pieces included
RECURSIVE split(_)
split(str) ==
  IF ~includes(str, " ") THEN <<str>>
  ELSE LET i == CHOOSE k \in 1..Len(str) :
                   /\ SubSeq(str, k, k) = " "
                   /\ \A j \in 1..(k - 1) : SubSeq(str, j, j) # " "
       IN  <<SubSeq(str, 1, i - 1)>> \o split(SubSeq(str, i + 1, Len(str)))

(***************************************************************************)
(* The text filter of one TranslationEngine: shouldSkipRecord and the      *)
(* functions it calls, and the runs of processOutgoingAudioLocal /         *)
(* processOutgoingAudioRemote that consult it.  processOutgoingAudio runs  *)
(* one of them at a time (isProcessing), so a run is one step here.        *)
(***************************************************************************)
\* this.mediaBlacklist
mediaBlacklist ==
  {"otter.ai", "otter ai", "transcribed by", "https://", "http://",
   "mbc news", "cnn", "bbc", "fox news", "breaking news", "live report",
   "reporter", "correspondent", "broadcasting", "anchor", "newsroom",
   "weather report", "traffic update", "sports update", "commercial break",
   "stay tuned", "coming up next", "brought to you by", "www."}

\* this.transcriptionArtifacts
transcriptionArtifacts ==
  {"transcribed by https://otter.ai", "otter.ai", ". .", "...", "[music]",
   "[inaudible]", "[silence]"}

\* const fillerWords of shouldSkipRecord
fillerWords == {"um", "uh", "hmm", "ah", "er"}

\* this.maxRecentTranscriptions
maxRecentTranscriptions == 5

\* the texts the recognizer returns (data.text || '')
Texts ==
  {"", "um", "[music]", "hello there", "hello there!", "Hello there ",
   "good morning", "breaking news", "Breaking News at nine",
   "i am fine thank you", "thank you i am fine", "see you soon",
   "visit otter.ai"}

\* the texts the recognizer returns in the sessions that keep their history:
\* six that resemble each other in nothing (a repeated one is a duplicate)
\* and the empty text
SessionTexts == {"", "one", "Two ", "three", "four", "five", "six"}

\* the translations a backend returns (data.translated); "" is none
Translations == {"", "hola"}

\* the responses of /api/remote/translate-audio: a failure, or data with
\* text, translated and reason; reason is read only with an empty text
RemoteReplies ==
  {[ok |-> FALSE, text |-> "", translated |-> "", reason |-> ""]}
  \cup {[ok |-> TRUE, text |-> t, translated |-> r, reason |-> ""] :
          t \in Texts, r \in Translations}
  \cup {[ok |-> TRUE, text |-> "", translated |-> "", reason |-> n] :
          n \in {"no_speech_detected", "no_speech"}}

\* createTranscriptionRecord: normalizedText of the record
normalizedText(text) == trim(toLowerCase(text))

\* containsMediaContent(text)
containsMediaContent(text) ==
  \E phrase \in mediaBlacklist : includes(text, toLowerCase(phrase))

\* isTranscriptionArtifact(text)
isTranscriptionArtifact(text) ==
  \E artifact \in transcriptionArtifacts :
    LET normalizedArtifact == toLowerCase(artifact)
    IN  text = normalizedArtifact \/ includes(text, normalizedArtifact)

\* calculateSimilarity(str1, str2), as the fraction num / den
calculateSimilarity(str1, str2) ==
  IF str1 = str2 THEN [num |-> 1, den |-> 1]
  ELSE IF Len(str1) = 0 \/ Len(str2) = 0 THEN [num |-> 0, den |-> 1]
  ELSE LET longer == IF Len(str1) > Len(str2) THEN str1 ELSE str2
           shorter == IF Len(str1) > Len(str2) THEN str2 ELSE str1
           words1 == split(str1)
           words2 == split(str2)
           commonWords == {i \in 1..Len(words1) :
                             \E j \in 1..Len(words2) : words2[j] = words1[i]}
       IN  IF includes(longer, shorter) THEN [num |-> 85, den |-> 100]
           ELSE [num |-> Cardinality(commonWords) * 2,
                 den |-> Len(words1) + Len(words2)]

\* similarity > 0.8
Exceeds(similarity) == similarity.num * 10 > similarity.den * 8

\* the functions above on the texts of the model, evaluated once
Normalized == [text \in Texts \cup SessionTexts |-> normalizedText(text)]
NormalizedTexts == {Normalized[text] : text \in Texts \cup SessionTexts}
LowerCased == [text \in Texts \cup SessionTexts |-> toLowerCase(text)]
Similar ==
  [pair \in NormalizedTexts \X NormalizedTexts |->
     Exceeds(calculateSimilarity(pair[1], pair[2]))]

\* mutant of EarlierReason: the denylist is consulted before the artifacts
DenylistFirst ==
  [text \in NormalizedTexts |->
     IF text = "" THEN "empty"
     ELSE IF containsMediaContent(text) THEN "media_content"
     ELSE IF isTranscriptionArtifact(text) THEN "artifact"
     ELSE IF text \in fillerWords \/ Len(text) < 2 THEN "short_or_filler"
     ELSE "none"]

\* the tests of shouldSkipRecord that precede isDuplicateOrRecent, in its
\* order, with the reason each records
EarlierReason ==
  [text \in NormalizedTexts |->
     IF text = "" THEN "empty"
     ELSE IF isTranscriptionArtifact(text) THEN "artifact"
     ELSE IF containsMediaContent(text) THEN "media_content"
     ELSE IF text \in fillerWords \/ Len(text) < 2 THEN "short_or_filler"
     ELSE "none"]

\* mutant of isDuplicateOrRecent: only the last processed text is compared
isSameAsLast(text, last, recent) == text = LowerCased[last]

\* isDuplicateOrRecent(normalizedText) with this.lastProcessedText = last and
\* this.recentTranscriptions = recent
isDuplicateOrRecent(text, last, recent) ==
  \/ text = LowerCased[last]
  \/ \E i \in 1..Len(recent) : Similar[<<text, recent[i]>>]

\* shouldSkipRecord: the reason it records; "none" when it returns false
SkipReason(text) ==
  IF EarlierReason[text] # "none" THEN EarlierReason[text]
  ELSE IF isDuplicateOrRecent(text, lastProcessedText, recentTranscriptions)
       THEN "duplicate"
  ELSE "none"

\* shouldSkipRecord(record, originalText)
shouldSkipRecord(text) == SkipReason(text) # "none"

\* mutant of addToRecentTranscriptions: a full ring drops the new entry
dropNewest(text) ==
  LET pushed == Append(recentTranscriptions, text)
  IN  IF Len(pushed) > maxRecentTranscriptions
      THEN SubSeq(pushed, 1, maxRecentTranscriptions) ELSE pushed

\* addToRecentTranscriptions(text)
addToRecentTranscriptions(text) ==
  LET pushed == Append(recentTranscriptions, text)
  IN  IF Len(pushed) > maxRecentTranscriptions THEN Tail(pushed) ELSE pushed

\* the page during a call it has accepted: the state CallIncoming and
\* Accept(TRUE) lead to from PageLoaded
InCallPage ==
  /\ currentCallId = 1
  /\ acceptEnabled = FALSE
  /\ translationEngine = 1
  /\ audioProcessor = 1
  /\ recorders = {1}
  /\ engine = [e \in Engines |-> NewEngine(e = 1)]
  /\ jobs = {}
  /\ timers = <<>>
  /\ pendingAudio = {}
  /\ sent = <<>>
  /\ ended = {}
  /\ done = {}
  /\ counts = [calls |-> 1, utterances |-> 0]
  /\ translatedAudioQueue = <<>>
  /\ isPlayingTranslatedAudio = FALSE
  /\ playing = {}
  /\ lastPlayed = 0
  /\ arrived = 0

\* the callback of startTranslation: if (translated && currentCallId)
Emits(translated) == translated # "" /\ currentCallId # 0

\* a run that returns { original: '', translated: '', audioBlob: null }
Discarded(text, reason, translation) ==
  /\ run' = [text |-> text, original |-> "", translated |-> "",
             reason |-> reason, translation |-> translation,
             emitted |-> Emits("")]
  /\ UNCHANGED <<lastProcessedText, recentTranscriptions>>

\* a run that passed the filter: lastProcessedText and the recent ring take
\* the text, and the callback gets { original, translated, ... }
Accepted(text, translated, translation) ==
  /\ lastProcessedText' = text
  /\ recentTranscriptions' = addToRecentTranscriptions(Normalized[text])
  /\ run' = [text |-> text, original |-> text, translated |-> translated,
             reason |-> "none", translation |-> translation,
             emitted |-> Emits(translated)]

\* processOutgoingAudioLocal: transcribe() returns transcribed ('' on an
\* error); translate() returns data.translated || text, and text on an error
RunLocal(transcribed, reply) ==
  /\ translatorMode = "local"
  /\ IF shouldSkipRecord(Normalized[transcribed])
     THEN Discarded(transcribed, SkipReason(Normalized[transcribed]), "")
     ELSE LET translated == IF reply = "" THEN transcribed ELSE reply
          IN  Accepted(transcribed, translated, translated)

\* processOutgoingAudioRemote: one request returns the recognized text and
\* its translation together; a failed request throws and processOutgoingAudio
\* returns the empty result
RunRemote(data) ==
  /\ translatorMode = "remote"
  /\ IF ~data.ok THEN Discarded("", "error", "")
     ELSE IF data.text = "" /\ data.reason \in {"no_speech_detected", "no_speech"}
     THEN Discarded("", "no_speech", data.translated)
     ELSE IF shouldSkipRecord(Normalized[data.text])
     THEN Discarded(data.text, SkipReason(Normalized[data.text]), data.translated)
     ELSE Accepted(data.text, data.translated, data.translated)

\* acceptBtn.onclick / call:accepted construct a new TranslationEngine
EngineReplaced ==
  /\ lastProcessedText' = ""
  /\ recentTranscriptions' = <<>>
  /\ run' = NoRun

FilterInit ==
  /\ RelayStart
  /\ translatorMode \in {"local", "remote"}
  /\ InCallPage
  /\ Constructed
  /\ Connected
  /\ EngineConstructed
  /\ CallerLoaded
  /\ NothingCompared

FilterNext ==
  \/ (\E t \in Texts, r \in Translations : RunLocal(t, r)) /\ UNCHANGED notFilter
  \/ (\E data \in RemoteReplies : RunRemote(data)) /\ UNCHANGED notFilter
  \/ EngineReplaced /\ UNCHANGED notFilter

SpecFilter == FilterInit /\ [][FilterNext]_vars

(***************************************************************************)
(* The raw-PCM streaming endpoint: one connection of wss.on('connection')  *)
(* in server.js.  A frame is [id, size]: ids number the binary messages in *)
(* arrival order, size is the frame's length in bytes.                     *)
(***************************************************************************)
\* number of binary messages one connection receives
MaxFrames == 4

\* const minBytes
minBytes == 32000

\* lengths of the binary messages: a chunk of 1024 samples of the worklet,
\* and a client that sends half a second of audio at once
FrameSizes == {2048, 16000}

\* sourceLang of a config message; '' is a message without the field
StreamLangs == {"", "ES"}

\* the texts translatePcmChunk returns as result.text
StreamTexts == {"", "hello there", "Breaking News at nine"}

\* err.message of a rejected translatePcmChunk; '' is an error without one
ErrorMessages ==
  {"", "Speech could not be recognized", "No speech detected", "fetch failed"}

\* pcmBuffers.reduce((sum, b) => sum + b.length, 0)
RECURSIVE totalSize(_)
totalSize(buffers) ==
  IF buffers = <<>> THEN 0 ELSE Head(buffers).size + totalSize(Tail(buffers))

\* the ids of the frames of a buffer
Ids(buffers) == {buffers[i].id : i \in 1..Len(buffers)}

\* processFrames(force) with pcmBuffers = buffers passes its three early
\* returns and starts a flush
Starts(buffers, force) ==
  /\ ~isTranslating
  /\ buffers # <<>>
  /\ force \/ totalSize(buffers) >= minBytes

\* mutant of processFrames: a flush that starts leaves its frames in the buffer
processFramesKeeps(buffers, force, emptied) ==
  IF Starts(buffers, force)
  THEN /\ frames' = buffers
       /\ pcmBuffers' = buffers
       /\ isTranslating' = TRUE
       /\ flushed' = flushed \cup Ids(buffers)
       /\ retry' = <<>>
       /\ UNCHANGED <<cleared, completed>>
  ELSE /\ pcmBuffers' = IF emptied THEN <<>> ELSE buffers
       /\ cleared' = IF emptied THEN cleared \cup Ids(buffers) ELSE cleared
       /\ UNCHANGED <<isTranslating, frames, flushed, completed, retry>>

\* processFrames(force) up to its await, called with pcmBuffers = buffers;
\* left is what the caller's statements after the call make of pcmBuffers
\* (the close handlers empty it)
processFrames(buffers, force, emptied) ==
  IF Starts(buffers, force)
  THEN /\ frames' = buffers
       /\ pcmBuffers' = <<>>
       /\ isTranslating' = TRUE
       /\ flushed' = flushed \cup Ids(buffers)
       /\ retry' = <<>>
       /\ UNCHANGED <<cleared, completed>>
  ELSE /\ pcmBuffers' = IF emptied THEN <<>> ELSE buffers
       /\ cleared' = IF emptied THEN cleared \cup Ids(buffers) ELSE cleared
       /\ UNCHANGED <<isTranslating, frames, flushed, completed, retry>>

\* ws.on('message') with a text message { type: 'config', sourceLang }
wsConfig(lang) ==
  /\ readyState = "OPEN"
  /\ streamLang' = toLowerCase(IF lang = "" THEN "en" ELSE lang)
  /\ wsOp' = "config"
  /\ wsSent' = <<>>
  /\ UNCHANGED <<pcmBuffers, isTranslating, frames, readyState, flushInterval,
                 received, flushed, completed, cleared, retry>>

\* ws.on('message') with a binary message of the given length
wsMessage(size) ==
  /\ readyState = "OPEN"
  /\ received < MaxFrames
  /\ received' = received + 1
  /\ LET pushed == Append(pcmBuffers, [id |-> received + 1, size |-> size])
     IN  IF totalSize(pushed) >= minBytes
         THEN processFrames(pushed, FALSE, FALSE)
         ELSE /\ pcmBuffers' = pushed
              /\ UNCHANGED <<isTranslating, frames, flushed, completed, cleared,
                             retry>>
  /\ wsOp' = "message"
  /\ wsSent' = <<>>
  /\ UNCHANGED <<streamLang, readyState, flushInterval>>

\* the callback of flushInterval: processFrames()
FlushTick ==
  /\ flushInterval
  /\ processFrames(pcmBuffers, FALSE, FALSE)
  /\ wsOp' = "tick"
  /\ wsSent' = <<>>
  /\ UNCHANGED <<streamLang, readyState, flushInterval, received>>

\* the try block of processFrames after translatePcmChunk resolved with
\* result = { text, translated, audioBase64 }
Translated(text, translated, audio) ==
  /\ isTranslating
  /\ wsSent' = IF readyState = "OPEN"
               THEN <<[type |-> "translation", original |-> text,
                       translated |-> translated, hasAudio |-> audio]>>
                    \o (IF audio THEN <<[type |-> "audio"]>> ELSE <<>>)
               ELSE <<>>
  /\ isTranslating' = FALSE
  /\ frames' = <<>>
  /\ wsOp' = "translated"
  /\ completed' = completed \cup Ids(frames)
  /\ UNCHANGED <<streamLang, pcmBuffers, readyState, flushInterval, received,
                 flushed, cleared, retry>>

\* msg.includes('could not be recognized') || msg.includes('no speech')
NoSpeech(message) ==
  LET msg == toLowerCase(message)
  IN  includes(msg, "could not be recognized") \/ includes(msg, "no speech")

\* mutant of PutBack: the frames are put behind those that arrived meanwhile
PutBehind(kept, buffers) == buffers \o kept

\* frames.concat(pcmBuffers)
PutBack(kept, buffers) == kept \o buffers

\* the catch block of processFrames after translatePcmChunk rejected
Failed(message) ==
  /\ isTranslating
  /\ IF NoSpeech(message)
     THEN /\ pcmBuffers' = PutBack(frames, pcmBuffers)
          /\ retry' = frames
     ELSE UNCHANGED <<pcmBuffers, retry>>
  /\ wsSent' = IF readyState = "OPEN"
               THEN <<[type |-> "error",
                       error |-> IF message = "" THEN "translation_failed"
                                 ELSE message]>>
               ELSE <<>>
  /\ isTranslating' = FALSE
  /\ frames' = <<>>
  /\ wsOp' = "failed"
  /\ UNCHANGED <<streamLang, readyState, flushInterval, received, flushed,
                 completed, cleared>>

\* ws.on('close'): processFrames(true); clearInterval(flushInterval);
\* pcmBuffers = []
wsClose ==
  /\ readyState \in {"OPEN", "CLOSING"}
  /\ readyState' = "CLOSED"
  /\ processFrames(pcmBuffers, TRUE, TRUE)
  /\ flushInterval' = FALSE
  /\ wsOp' = "close"
  /\ wsSent' = <<>>
  /\ UNCHANGED <<streamLang, received>>

\* ws.on('error'), the same statements; the socket is closing when the ws
\* library emits it, and its 'close' event follows
wsError ==
  /\ readyState = "OPEN"
  /\ readyState' = "CLOSING"
  /\ processFrames(pcmBuffers, TRUE, TRUE)
  /\ flushInterval' = FALSE
  /\ wsOp' = "error"
  /\ wsSent' = <<>>
  /\ UNCHANGED <<streamLang, received>>

StreamInit ==
  /\ RelayStart
  /\ translatorMode = "local"
  /\ PageLoaded
  /\ Constructed
  /\ Connected
  /\ EngineConstructed
  /\ CallerLoaded
  /\ NothingCompared

StreamNext ==
  \/ (\E l \in StreamLangs : wsConfig(l)) /\ UNCHANGED notStream
  \/ (\E z \in FrameSizes : wsMessage(z)) /\ UNCHANGED notStream
  \/ FlushTick /\ UNCHANGED notStream
  \/ (\E t \in StreamTexts, r \in Translations, a \in BOOLEAN :
        Translated(t, r, a)) /\ UNCHANGED notStream
  \/ (\E m \in ErrorMessages : Failed(m)) /\ UNCHANGED notStream
  \/ wsClose /\ UNCHANGED notStream
  \/ wsError /\ UNCHANGED notStream

SpecStream == StreamInit /\ [][StreamNext]_vars

(***************************************************************************)
(* The caller page: the handlers of public/caller.js that place a call and *)
(* take the server's answer.  call:ringing, call:accepted and cleanup act  *)
(* on the page state as CallIncoming, Accept and resetCallState do.        *)
(***************************************************************************)
\* call:place events one page has outstanding
MaxPlaced == 2

\* socket.on('agents:list'): the select is rebuilt from the available
\* agents and callBtn is enabled when there is one, whatever the call state
AgentsList(available) ==
  /\ callBtn' = [enabled |-> available, agentId |-> available]
  /\ pageOp' = "agents:list"
  /\ UNCHANGED <<placed, pipeVars>>

\* callBtn.onclick: if (!agentId) return; callBtn.disabled = true; ...;
\* socket.emit('call:place', ...)
callBtnClick ==
  /\ callBtn.enabled
  /\ callBtn.agentId
  /\ placed < MaxPlaced
  /\ callBtn' = [callBtn EXCEPT !.enabled = FALSE]
  /\ placed' = placed + 1
  /\ pageOp' = "callBtn"
  /\ UNCHANGED pipeVars

\* socket.on('call:ringing'): the server's answer to a call:place it took
CallRinging ==
  /\ placed > 0
  /\ placed' = placed - 1
  /\ CallIncoming
  /\ pageOp' = "call:ringing"
  /\ UNCHANGED callBtn

\* socket.on('call:accepted')
CallAccepted(enableTranslation) ==
  /\ Accept(enableTranslation)
  /\ pageOp' = "call:accepted"
  /\ UNCHANGED <<callBtn, placed>>

\* cleanup(): callBtn.disabled = false and the call state is reset
cleanup ==
  /\ callBtn' = [callBtn EXCEPT !.enabled = TRUE]
  /\ IF currentCallId # 0 THEN resetCallState ELSE UNCHANGED pipeVars

\* socket.on('call:error'): the server's answer to a call:place it refused
CallError ==
  /\ placed > 0
  /\ placed' = placed - 1
  /\ cleanup
  /\ pageOp' = "call:error"

\* hangupBtn.onclick, socket.on('call:declined'), socket.on('call:hangup')
CallOver ==
  /\ currentCallId # 0
  /\ cleanup
  /\ pageOp' = "cleanup"
  /\ UNCHANGED placed

CallerInit ==
  /\ RelayStart
  /\ translatorMode = "local"
  /\ PageLoaded
  /\ Constructed
  /\ Connected
  /\ EngineConstructed
  /\ CallerLoaded
  /\ NothingCompared

CallerNext ==
  \/ (\E b \in BOOLEAN : AgentsList(b)) /\ UNCHANGED notCaller
  \/ callBtnClick /\ UNCHANGED notCaller
  \/ CallRinging /\ UNCHANGED notCaller
  \/ (\E b \in BOOLEAN : CallAccepted(b)) /\ UNCHANGED notCaller
  \/ CallError /\ UNCHANGED notCaller
  \/ CallOver /\ UNCHANGED notCaller

SpecCaller == CallerInit /\ [][CallerNext]_vars

(***************************************************************************)
(* The pipeline in an endless run.  The utterance buffers are told apart   *)
(* by a label that is free again once the buffer has left the queue, the   *)
(* timers and the runs; every run ends with nothing to forward (no speech  *)
(* recognized, or a filtered text), so that the histories stay as they     *)
(* are.  A backend call eventually returns and an armed timer eventually   *)
(* fires.                                                                  *)
(***************************************************************************)
\* mediaRecorder.onstop of recorder r, as Submit, with a free label: one that
\* no buffer in a queue, a timer or a run carries
SubmitNext(r) ==
  LET InUse ==
        UNION {{engine[e].processingQueue[i].id : i \in DOMAIN engine[e].processingQueue} :
                 e \in Engines}
          \cup {timers[i].blob.id : i \in DOMAIN timers}
          \cup {j.blob.id : j \in jobs}
  IN  /\ r \in recorders
      /\ ~Blocked(r)
      /\ IF translationEngine = 0
         THEN /\ recorders' = recorders \ {r}
              /\ UNCHANGED <<engine, jobs>>
         ELSE /\ \E id \in 1..MaxUtterances :
                   /\ id \notin InUse
                   /\ \A other \in 1..(id - 1) : other \in InUse
                   /\ processOutgoingAudio(translationEngine,
                                           [id |-> id, call |-> currentCallId], r)
              /\ UNCHANGED recorders
      /\ UNCHANGED <<translatorMode, currentCallId, acceptEnabled, translationEngine,
                     audioProcessor, timers, pendingAudio, sent, ended, done, counts>>

\* the runs that end with nothing to forward
NothingToForward == {"skipped", "stt_failed"}

EndlessNext ==
  \/ CallIncoming /\ UNCHANGED notPipeline
  \/ (\E b \in BOOLEAN : Accept(b)) /\ UNCHANGED notPipeline
  \/ (\E r \in Recorders : SubmitNext(r)) /\ UNCHANGED notPipeline
  \/ (\E j \in jobs, o \in NothingToForward : Finish(j, o)) /\ UNCHANGED notPipeline
  \/ TimerFire /\ UNCHANGED notPipeline
  \/ resetCallState /\ UNCHANGED notPipeline

\* every backend call returns or fails, every armed timer fires
SpecPipelineEndless ==
  /\ PipelineInit
  /\ [][EndlessNext]_vars
  /\ WF_vars((\E j \in jobs, o \in NothingToForward : Finish(j, o)) /\ UNCHANGED notPipeline)
  /\ WF_vars(TimerFire /\ UNCHANGED notPipeline)

(***************************************************************************)
(* The session of one TranslationEngine in local mode: the records of      *)
(* this.transcriptionHistory and the context that processOutgoingAudio-    *)
(* Local builds from them for translate().                                 *)
(***************************************************************************)
\* this.contextWindowSize
contextWindowSize == 3

\* the records one engine makes
MaxRecords == 6

\* the /api/translate requests of one engine that fail
MaxFailures == 1

\* Array.prototype.slice(-n)
lastOf(seq, n) ==
  IF Len(seq) > n THEN SubSeq(seq, Len(seq) - n + 1, Len(seq)) ELSE seq

\* entry.text.trim() on the texts of the model, evaluated once
Trimmed == [text \in Texts \cup SessionTexts |-> trim(text)]

\* buildContextForTranslation(currentRecord) with this.transcriptionHistory =
\* history and currentRecord.id = id
buildContextForTranslation(history, id) ==
  LET kept(entry) == /\ entry.id # id
                      /\ entry.text # "" /\ Len(Trimmed[entry.text]) > 0
                      /\ entry.status # "filtered"
      sliced == lastOf(SelectSeq(history, kept), contextWindowSize + 1)
      context == [i \in 1..Len(sliced) |-> Trimmed[sliced[i].text]]
  IN  lastOf(context, contextWindowSize)

\* one run of processOutgoingAudioLocal with its record: createTranscription-
\* Record pushes it with status captured, shouldSkipRecord marks it discarded
\* or filtered, otherwise the context is built and the record ends translated;
\* ok is false when the /api/translate request fails
RunRecorded(transcribed, reply, ok) ==
  LET id == Len(transcriptionHistory) + 1
      record == [id |-> id, text |-> transcribed, status |-> "captured"]
      captured == Append(transcriptionHistory, record)
      reason == SkipReason(Normalized[transcribed])
      final(status) == Append(transcriptionHistory, [record EXCEPT !.status = status])
  IN  /\ id <= MaxRecords
      /\ ok \/ Cardinality(failedIds) < MaxFailures
      /\ RunLocal(transcribed, IF ok THEN reply ELSE "")
      /\ IF reason # "none"
         THEN /\ transcriptionHistory' =
                   final(IF reason = "empty" THEN "discarded" ELSE "filtered")
              /\ translationContext' = <<>>
              /\ UNCHANGED <<failedIds, lastProcessTime>>
         ELSE /\ transcriptionHistory' = final("translated")
              /\ translationContext' = buildContextForTranslation(captured, id)
              /\ failedIds' = IF ok THEN failedIds ELSE failedIds \cup {id}
              /\ lastProcessTime' = id

\* acceptBtn.onclick / call:accepted construct a new TranslationEngine
SessionReplaced ==
  /\ transcriptionHistory # <<>>
  /\ EngineReplaced
  /\ transcriptionHistory' = <<>>
  /\ translationContext' = <<>>
  /\ failedIds' = {}
  /\ lastProcessTime' = 0

SessionInit ==
  /\ RelayStart
  /\ translatorMode = "local"
  /\ InCallPage
  /\ Constructed
  /\ Connected
  /\ EngineConstructed
  /\ CallerLoaded
  /\ NothingCompared

SessionNext ==
  \/ (\E t \in SessionTexts, ok \in BOOLEAN :
        RunRecorded(t, "hola", ok)) /\ UNCHANGED notSession
  \/ SessionReplaced /\ UNCHANGED notSession

SpecSession == SessionInit /\ [][SessionNext]_vars

(***************************************************************************)
(* Playback of the translated audio a page receives: the queue of          *)
(* playNextTranslatedAudio and the Audio elements it starts.  An Audio     *)
(* element plays until its ended event, whatever the page's globals hold.  *)
(***************************************************************************)
\* number of translation:audio events one page receives
MaxClips == 3

\* playNextTranslatedAudio() called with translatedAudioQueue = queue and
\* isPlayingTranslatedAudio = isPlaying while the clips of audible play
playNextTranslatedAudio(queue, isPlaying, audible) ==
  IF isPlaying \/ queue = <<>>
  THEN /\ translatedAudioQueue' = queue
       /\ isPlayingTranslatedAudio' = isPlaying
       /\ playing' = audible
       /\ UNCHANGED lastPlayed
  ELSE /\ isPlayingTranslatedAudio' = TRUE
       /\ translatedAudioQueue' = Tail(queue)
       /\ playing' = audible \cup {Head(queue)}
       /\ lastPlayed' = Head(queue)

\* socket.on('translation:audio') with audioData: the clip is pushed and
\* playNextTranslatedAudio is called
AudioReceived ==
  /\ arrived < MaxClips
  /\ arrived' = arrived + 1
  /\ playNextTranslatedAudio(Append(translatedAudioQueue, arrived + 1),
                             isPlayingTranslatedAudio, playing)
  /\ UNCHANGED pipeVars

\* audio.onended of the Audio element of clip c: the flag is cleared and
\* playNextTranslatedAudio is called
ClipEnded(c) ==
  /\ c \in playing
  /\ playNextTranslatedAudio(translatedAudioQueue, FALSE, playing \ {c})
  /\ UNCHANGED <<arrived, pipeVars>>

\* resetCallState of agent.js / cleanup of caller.js with its statements
\* translatedAudioQueue = []; isPlayingTranslatedAudio = false: no Audio
\* element is paused
EndCall ==
  /\ resetCallState
  /\ translatedAudioQueue' = <<>>
  /\ isPlayingTranslatedAudio' = FALSE
  /\ UNCHANGED <<playing, lastPlayed, arrived>>

PlaybackInit ==
  /\ RelayStart
  /\ translatorMode = "local"
  /\ PageLoaded
  /\ Constructed
  /\ Connected
  /\ EngineConstructed
  /\ CallerLoaded
  /\ NothingCompared

PlaybackNext ==
  \/ CallIncoming /\ UNCHANGED notPipeline
  \/ (\E b \in BOOLEAN : Accept(b)) /\ UNCHANGED notPipeline
  \/ AudioReceived /\ UNCHANGED notPlayback
  \/ (\E c \in playing : ClipEnded(c)) /\ UNCHANGED notPlayback
  \/ EndCall /\ UNCHANGED notPlayback

SpecPlayback == PlaybackInit /\ [][PlaybackNext]_vars

(***************************************************************************)
(* calculateSimilarity on its own: the two texts are any normalized texts  *)
(* of up to MaxWords words, and the function is called with them in        *)
(* either order.                                                           *)
(***************************************************************************)
\* number of words of a text
MaxWords == 3

\* the words of the texts
SimWords == {"no", "yes"}

\* the texts of n words of SimWords, separated by single spaces
RECURSIVE TextsOf(_)
TextsOf(n) ==
  IF n = 1 THEN SimWords
  ELSE {t \o " " \o w : t \in TextsOf(n - 1), w \in SimWords}

\* normalized texts: the empty text and the texts of 1..MaxWords words
SimTexts == {""} \cup UNION {TextsOf(n) : n \in 1..MaxWords}

\* calculateSimilarity(simA, simB) is called
Compare ==
  /\ simAB = NoSimilarity
  /\ simAB' = calculateSimilarity(simA, simB)
  /\ UNCHANGED <<simA, simB, simBA>>

\* calculateSimilarity(simB, simA) is called
CompareReversed ==
  /\ simBA = NoSimilarity
  /\ simBA' = calculateSimilarity(simB, simA)
  /\ UNCHANGED <<simA, simB, simAB>>

SimilarityInit ==
  /\ RelayStart
  /\ translatorMode = "local"
  /\ PageLoaded
  /\ Constructed
  /\ Connected
  /\ EngineConstructed
  /\ CallerLoaded
  /\ simA \in SimTexts
  /\ simB \in SimTexts
  /\ simAB = NoSimilarity
  /\ simBA = NoSimilarity

SimilarityNext ==
  \/ Compare /\ UNCHANGED notSimilarity
  \/ CompareReversed /\ UNCHANGED notSimilarity

SpecSimilarity == SimilarityInit /\ [][SimilarityNext]_vars

(***************************************************************************)
(* Relay: calls as the server holds them                                   *)
(***************************************************************************)
\* a call that has both of its participants in its room (ringing or active)
InCall(c) == rooms[c] = {CallerOf(c), WorkerOf(c)}

\* the calls that are not terminated and have worker w as a participant
LiveCallsOf(w) == {c \in CallIds : WorkerOf(c) = w /\ w \in rooms[c]}

\* the availability broadcasts among the emissions of a handler run
Broadcasts(out) == {i \in DOMAIN out : out[i].via = "io.emit" /\ out[i].ev = "agents:list"}

\* C1: each worker is a participant of at most one non-terminated call, and a
\* worker that is a participant of a non-terminated call has busy = true.
C1_OneCallPerBusyWorker ==
  \A w \in DOMAIN agents :
     /\ Cardinality(LiveCallsOf(w)) <= 1
     /\ LiveCallsOf(w) # {} => agents[w].busy

\* C2: after hangup(callId) on a ringing or active call, issued by either
\* participant, the worker of that call has busy = false and exactly one
\* availability broadcast has been emitted for that hangup.
C2_HangupReleasesWorker ==
  [][ (/\ lastOp'.op = "call:hangup"
       /\ InCall(lastOp'.arg)
       /\ lastOp'.sock \in {CallerOf(lastOp'.arg), WorkerOf(lastOp'.arg)}
       /\ HasAgent(WorkerOf(lastOp'.arg)))
      => (/\ ~agents'[WorkerOf(lastOp'.arg)].busy
          /\ Cardinality(Broadcasts(emitted')) = 1) ]_vars

\* C3: placeCall targeting a registered worker whose busy flag is true returns
\* the Unavailable error to the caller only and leaves the registry unchanged:
\* no worker's flags change, no room changes, no broadcast is emitted.
C3_PlaceToBusyWorker ==
  [][ (/\ lastOp'.op = "call:place"
       /\ HasAgent(lastOp'.arg[1])
       /\ agents[lastOp'.arg[1]].busy)
      => (/\ agents' = agents
          /\ rooms' = rooms
          /\ emitted' = <<Msg("socket.emit", "call:error", {lastOp'.sock},
                              "Agent is not available.")>>) ]_vars

\* C3 witness: a caller has just been refused at a busy worker whose call, with
\* another caller, still has both participants, while a second worker is idle.
C3_Witness ==
  /\ lastOp.op = "call:place"
  /\ HasAgent(lastOp.arg[1])
  /\ agents[lastOp.arg[1]].busy /\ agents[lastOp.arg[1]].available
  /\ emitted[1].ev = "call:error"
  /\ \E c \in CallIds : /\ InCall(c)
                         /\ WorkerOf(c) = lastOp.arg[1]
                         /\ CallerOf(c) # lastOp.sock
  /\ \E w \in DOMAIN agents : ~agents[w].busy

\* C9: when either participant of a ringing or active call is lost (socket
\* disconnect), the call no longer holds both participants and the busy flag
\* of the call's worker is released: a worker does not stay busy for a call
\* whose caller has gone.
C9_LostParticipantReleasesWorker ==
  [][ lastOp'.op = "disconnect"
      => \A c \in CallIds :
            (InCall(c) /\ lastOp'.sock \in {CallerOf(c), WorkerOf(c)})
            => (/\ rooms'[c] # {CallerOf(c), WorkerOf(c)}
                /\ WorkerOf(c) \in DOMAIN agents' => ~agents'[WorkerOf(c)].busy) ]_vars

\* C10: a decline or hangup naming a callId whose call has already terminated
\* is a no-op: it changes no worker's flags, emits no broadcast, delivers no
\* event to any peer and raises no error.
C10_ReplayIsNoOp ==
  [][ (/\ lastOp'.op \in {"call:decline", "call:hangup"}
       /\ lastOp'.arg \in terminated)
      => (/\ agents' = agents
          /\ \A i \in DOMAIN emitted' : emitted'[i].to = {}) ]_vars

(***************************************************************************)
(* Pipeline: utterances as the engines hold them                           *)
(***************************************************************************)
\* ids of the utterances that wait for engine e: in its queue, or taken from
\* it and held by an armed 300 ms timer
WaitingFor(e) ==
  {engine[e].processingQueue[i].id : i \in DOMAIN engine[e].processingQueue}
    \cup {timers[i].blob.id : i \in {k \in DOMAIN timers : timers[k].e = e}}

\* the runs of processOutgoingAudio in flight on engine e
InFlight(e) == {j \in jobs : j.e = e}

\* positions of the translation:text emissions for utterance id
TextSent(id) ==
  {i \in DOMAIN sent : sent[i].ev = "translation:text" /\ sent[i].id = id}

\* C4: for one engine, an utterance submitted later never begins processing
\* before an earlier-submitted utterance that is still waiting (in the queue or
\* in the 300 ms delay before the dequeued one starts); a result is forwarded
\* when its run settles, so forwarding follows the order of processing.
C4_CaptureOrder ==
  \A j \in jobs : \A id \in WaitingFor(j.e) : j.blob.id < id

\* C5: at every instant at most one run per TranslationEngine is between the
\* start of its transcription and its settlement, and isProcessing is set
\* while it is; an utterance submitted meanwhile is enqueued.
C5_SingleFlight ==
  \A e \in Engines :
    /\ Cardinality(InFlight(e)) <= 1
    /\ InFlight(e) # {} => engine[e].isProcessing

\* C5 witness: a run started by the timer for a dequeued utterance is in flight
\* while an utterance submitted during it waits in the queue.
C5_Witness ==
  \E j \in jobs :
    /\ j.cb = 0
    /\ engine[j.e].processingQueue # <<>>
    /\ \A i \in DOMAIN engine[j.e].processingQueue :
         j.blob.id < engine[j.e].processingQueue[i].id

\* C6: every utterance that passed the filters and whose transcription,
\* translation and synthesis succeeded while its call was current has been
\* emitted to the relay as translation:text exactly once, whether its run was
\* started on submission or from the queue.
C6_EmittedOnce ==
  \A id \in done : Cardinality(TextSent(id)) = 1

\* C7: after hangup or decline of a call, the queue of that call's engine is
\* empty, and no result of an utterance captured during that call is emitted
\* to the relay under the callId of any call.
C7_CancelledOnHangup ==
  /\ \A c \in ended : engine[c].processingQueue = <<>>
  /\ \A i \in DOMAIN sent : sent[i].afterEnd => sent[i].callId = 0

\* C8: when the transcription, translation or synthesis call of an utterance
\* fails, nothing is emitted for it: every emission carries the translation
\* (never the untranslated source text) of an utterance whose synthesis
\* produced audio.
C8_FailureDiscards ==
  \A i \in DOMAIN sent : sent[i].translated = "translation" /\ sent[i].audioBlob

(***************************************************************************)
(* Relay: forwarding                                                       *)
(***************************************************************************)
\* the event a forwarding handler emits for the event it received
ForwardedAs(op) == IF op = "call:accept" THEN "call:accepted" ELSE op

\* the last handler run forwarded a message of a participant of a live call
ForwardInLiveCall(op) ==
  /\ op.op \in {"call:accept", "webrtc:ice", "translation:text", "translation:audio"}
  /\ InCall(op.arg)
  /\ op.sock \in {CallerOf(op.arg), WorkerOf(op.arg)}

\* C11 (as stated): an accept, ice-candidate, utterance-text or utterance-audio
\* message sent by a participant of a live call is delivered to exactly the
\* other participant of that call with its payload fields unchanged, never to
\* the sender or to a socket outside the call.
C11_DeliveredUnchanged ==
  [][ ForwardInLiveCall(lastOp')
      => emitted' = <<Msg("socket.to", ForwardedAs(lastOp'.op),
                          {CallerOf(lastOp'.arg), WorkerOf(lastOp'.arg)} \ {lastOp'.sock},
                          lastOp'.payload)>> ]_vars

\* C11 (amended): the message is delivered to exactly the other participant of
\* the call, with its payload fields unchanged except that an accept whose
\* agentLanguage is absent or empty is delivered with agentLanguage 'English'.
C11_DeliveredToPeer ==
  [][ ForwardInLiveCall(lastOp')
      => /\ Len(emitted') = 1
         /\ emitted'[1].via = "socket.to"
         /\ emitted'[1].ev = ForwardedAs(lastOp'.op)
         /\ emitted'[1].to = {CallerOf(lastOp'.arg), WorkerOf(lastOp'.arg)} \ {lastOp'.sock}
         /\ IF lastOp'.op = "call:accept"
            THEN /\ emitted'[1].body.answer = lastOp'.payload.answer
                 /\ emitted'[1].body.agentLanguage =
                      (IF lastOp'.payload.agentLanguage = "" THEN "English"
                       ELSE lastOp'.payload.agentLanguage)
            ELSE emitted'[1].body = lastOp'.payload ]_vars

\* C11 witness: the worker of a live call has accepted without an
\* agentLanguage and the caller alone has been sent call:accepted.
C11_Witness ==
  /\ ForwardInLiveCall(lastOp)
  /\ lastOp.op = "call:accept"
  /\ lastOp.sock = WorkerOf(lastOp.arg)
  /\ lastOp.payload.agentLanguage = ""
  /\ emitted[1].to = {CallerOf(lastOp.arg)}
  /\ emitted[1].body.agentLanguage = "English"

(***************************************************************************)
(* Segmenter                                                               *)
(***************************************************************************)
\* C12: a closed segment whose size is below minAudioSize, or during whose own
\* recording cycle no reading exceeded speechStartThreshold, is never passed
\* to the pipeline callback.
C12_OnlySpeechSegmentsPass ==
  \A seg \in passed : seg.size >= minAudioSize /\ seg.speech

\* this step is the tick at which requiredSilenceCount consecutive readings
\* below silenceThreshold have been taken with isSpeaking set
SilenceReached ==
  cycle'.quiet = requiredSilenceCount /\ cycle.quiet < requiredSilenceCount

\* this step is a run of the interval callback that found the close condition
SilenceTriggered == ap.isRecording /\ ap'.isRecording /\ ap.isSpeaking /\ ~ap'.isSpeaking

\* this step stopped the recorder because of silence
SilenceClose ==
  stopEvent' # stopEvent /\ stopEvent' # <<>> /\ stopEvent'[1].by = "silence"

\* C13 (as stated): when, with isSpeaking set, the level has stayed below
\* silenceThreshold for requiredSilenceCount consecutive ticks (debounceDelay
\* then has elapsed since the last reading above the threshold), exactly one
\* silence-triggered segment-close fires.
C13_SilenceClosesSegment ==
  [][ SilenceReached => SilenceClose ]_vars

\* C13 (amended): at that tick the silence detection fires exactly once: it
\* clears isSpeaking and the silence counter, and it closes the segment when
\* the recorder is recording; a recorder that is inactive at that tick is not
\* closed.  No silence-triggered close fires without it, so further silent
\* ticks close nothing until speech is detected again.
C13_SilenceFiresOnce ==
  [][ /\ SilenceReached => SilenceTriggered
      /\ SilenceTriggered => /\ ap'.consecutiveSilenceCount = 0
                             /\ ap.state = "recording" <=> SilenceClose
      /\ SilenceClose => SilenceTriggered ]_vars

\* C13 witness: silence has just closed a recording segment after
\* requiredSilenceCount consecutive silent ticks.
C13_Witness ==
  /\ stopEvent # <<>>
  /\ stopEvent[1].by = "silence"
  /\ cycle.quiet = requiredSilenceCount
  /\ ~ap.isSpeaking
  /\ ap.consecutiveSilenceCount = 0

(***************************************************************************)
(* Text filter and streaming endpoint                                      *)
(***************************************************************************)
\* the texts whose normalized form contains a phrase of the denylist
Denylisted == {text \in Texts : containsMediaContent(Normalized[text])}

\* the last run of the engine recognized a text with a denylisted phrase
\* and the run returned the empty result, so that nothing was emitted
DenylistedRunDiscarded ==
  run.text \in Denylisted
    => run.original = "" /\ run.translated = "" /\ ~run.emitted

\* the translation messages the streaming endpoint has just sent
TranslationsSent ==
  {wsSent[i] : i \in {k \in 1..Len(wsSent) : wsSent[k].type = "translation"}}

\* C14: an utterance whose recognized text contains a denylisted phrase is
\* discarded and its translation is never delivered, by the local and the
\* remote pipeline of the engine and by the streaming endpoint alike
C14_DenylistedNeverDelivered ==
  /\ DenylistedRunDiscarded
  /\ \A m \in TranslationsSent : m.original \notin Denylisted
\* before a run: the normalized text equals the preceding accepted text, or
\* its similarity to an entry of the recent ring exceeds 0.8
RepeatsAccepted(text) ==
  \/ lastProcessedText # "" /\ Normalized[text] = Normalized[lastProcessedText]
  \/ \E i \in 1..Len(recentTranscriptions) :
       Similar[<<Normalized[text], recentTranscriptions[i]>>]

\* a step is a run on a text that repeats an accepted one
RepeatedRun == run' # NoRun /\ run'.text # "" /\ RepeatsAccepted(run'.text)

\* the run returned the empty result and its callback emitted nothing
ReturnedEmpty(r) == r.original = "" /\ r.translated = "" /\ ~r.emitted

\* C15 as stated: an utterance that repeats the preceding accepted text, or
\* is more than 0.8 similar to an entry of the recent ring, is discarded and
\* is neither translated nor forwarded
C15_DuplicateNeitherTranslatedNorForwarded ==
  [][RepeatedRun => ReturnedEmpty(run') /\ run'.translation = ""]_vars

\* C15: an utterance that repeats the preceding accepted text, or is more
\* than 0.8 similar to an entry of the recent ring, is discarded and not
\* forwarded; the local pipeline makes no translation of it
C15_DuplicateDiscarded ==
  [][RepeatedRun =>
       /\ ReturnedEmpty(run')
       /\ translatorMode = "local" => run'.translation = ""]_vars

\* "hello there!" was recognized with "hello there" in the recent ring and
\* was discarded as a duplicate
C15_Witness ==
  /\ run.text = "hello there!"
  /\ run.reason = "duplicate"
  /\ \E i \in 1..Len(recentTranscriptions) :
       recentTranscriptions[i] = "hello there"
  /\ ReturnedEmpty(run)
\* seq begins with the elements of head, in their order
BeginsWith(seq, head) ==
  Len(head) <= Len(seq) /\ SubSeq(seq, 1, Len(head)) = head

\* a step in which the flush in flight ends with the no-speech condition
NoSpeechEnd == isTranslating /\ wsOp' = "failed" /\ retry' = frames

\* a step in which a flush starts
FlushStart == ~isTranslating /\ isTranslating'

\* C16: a flush that ends with the no-speech condition puts its frames back
\* at the front of the buffer, in their order and ahead of the frames that
\* arrived meanwhile; they stay there until the next flush, whose input
\* begins with exactly those frames
C16_NoSpeechFramesFirst ==
  [][/\ NoSpeechEnd => pcmBuffers' = frames \o pcmBuffers
     /\ retry' # <<>> => BeginsWith(pcmBuffers', retry')
     /\ FlushStart => BeginsWith(frames', retry)]_vars

\* a no-speech flush has just put two frames back in front of a frame that
\* arrived while it was in flight
C16_Witness ==
  /\ wsOp = "failed"
  /\ Len(retry) = 2
  /\ Len(pcmBuffers) = 3
  /\ BeginsWith(pcmBuffers, retry)
  /\ pcmBuffers[3].id > retry[2].id
\* C17: with frames in the buffer and no flush in flight a flush starts when
\* a frame brings the size to minBytes and when the flush timer fires, also
\* with a buffer below minBytes: after either handler has run, frames are
\* left in the buffer (below minBytes after a message) only behind a flush
\* in flight
C17_FlushOnSizeOrTimer ==
  /\ wsOp = "message" => totalSize(pcmBuffers) < minBytes \/ isTranslating
  /\ wsOp = "tick" => pcmBuffers = <<>> \/ isTranslating
\* C18: when the connection closes, every frame in the buffer is submitted
\* by the forced flush of the close handler, also with another flush in
\* flight: no frame is emptied out of the buffer that no flush has submitted
C18_ClosedBufferFlushed == cleared \subseteq flushed
(***************************************************************************)
(* Relay: refused calls and the broadcast list                             *)
(***************************************************************************)
\* the relay's part of a failed placement: a call:place that names an id
\* that is not registered, or a worker whose available flag is false, emits
\* one call:error event, to the placing socket only, with the reason of its
\* case, and changes no worker's flags and no room
FailedPlaceOnlyReportsError ==
  [][(/\ lastOp'.op = "call:place"
      /\ \/ ~HasAgent(lastOp'.arg[1])
         \/ ~agents[lastOp'.arg[1]].available) =>
       /\ agents' = agents
       /\ rooms' = rooms
       /\ emitted' = <<Msg("socket.emit", "call:error", {lastOp'.sock},
                           IF HasAgent(lastOp'.arg[1])
                           THEN "Agent is not available."
                           ELSE "Agent not found or disconnected.")>>]_vars

\* C19: a failed placeCall delivers an error event to the originating caller
\* and changes no other call's state: the call the caller's page holds when
\* the error arrives, with its engine and recorder, is as it was
C19_FailedPlaceLeavesCalls ==
  [][pageOp' = "call:error" =>
       /\ currentCallId' = currentCallId
       /\ translationEngine' = translationEngine
       /\ recorders' = recorders]_vars

\* C20: every operation that changes the registry (a worker registers, sets
\* its availability, is rung by a placed call, declines, hangs up or
\* disconnects) emits a broadcast, and every broadcast goes to all connected
\* sockets and carries the list of after the operation (per worker,
\* available and not busy); so the last list broadcast is the registry's
\* current state
C20_BroadcastCarriesCurrentList ==
  [][/\ agents' # agents => Broadcasts(emitted') # {}
     /\ \A i \in Broadcasts(emitted') :
          /\ emitted'[i].to = sockets'
          /\ emitted'[i].body =
               [id \in DOMAIN agents' |->
                  agents'[id].available /\ ~agents'[id].busy]]_vars

\* a placed call has just made a worker busy and the broadcast lists that
\* worker as not available and another worker as available
C20_Witness ==
  /\ lastOp.op = "call:place"
  /\ Broadcasts(emitted) = {1}
  /\ agents[lastOp.arg[1]].busy
  /\ ~emitted[1].body[lastOp.arg[1]]
  /\ \E w \in DOMAIN agents : emitted[1].body[w]
\* C21: a call:place by caller c naming a registered worker w that is
\* available and not busy sets w.busy, broadcasts the updated list, leaves
\* exactly c and w in the room of the call, delivers call:incoming with the
\* offer and the callId to w and call:ringing with the callId to c.
C21_PlaceCreatesRingingCall ==
  [][ (/\ lastOp'.op = "call:place"
       /\ HasAgent(lastOp'.arg[1])
       /\ agents[lastOp'.arg[1]].available
       /\ ~agents[lastOp'.arg[1]].busy)
      => LET c == lastOp'.sock
             w == lastOp'.arg[1]
             callId == CallIdOf(c, w)
         IN  /\ agents' = [agents EXCEPT ![w].busy = TRUE]
             /\ rooms' = [rooms EXCEPT ![callId] = {c, w}]
             /\ Len(emitted') = 3
             /\ emitted'[1] = broadcastAgents(agents', sockets)
             /\ ~emitted'[1].body[w]
             /\ emitted'[2].ev = "call:incoming"
             /\ emitted'[2].to = {w}
             /\ emitted'[2].body.callId = callId
             /\ emitted'[2].body.offer \in Payloads
             /\ emitted'[3] = Msg("socket.emit", "call:ringing", {c}, [callId |-> callId]) ]_vars

\* C21 witness: the second caller has just placed a call with offer "q" to
\* the second worker while the first worker rings for the first caller.
C21_Witness ==
  /\ lastOp.op = "call:place"
  /\ lastOp.sock = 4
  /\ lastOp.arg = <<2>>
  /\ Len(emitted) = 3
  /\ emitted[2].body.offer = "q"
  /\ rooms[<<4, 2>>] = {4, 2}
  /\ rooms[<<3, 1>>] = {3, 1}
  /\ agents[1].busy /\ agents[2].busy

\* C22: call:accepted reaches the caller of a call only through a call:accept
\* issued by that call's worker while the call rings (both participants in
\* the room, not yet accepted), hence at most once per call; a call:accept
\* naming a call that is already active or already terminated is delivered to
\* nobody.
C22_AcceptedOnceByWorker ==
  [][ lastOp'.op = "call:accept"
      => LET c == lastOp'.arg
         IN  /\ CallerOf(c) \in emitted'[1].to
                  => (lastOp'.sock = WorkerOf(c) /\ InCall(c) /\ c \notin active)
             /\ c \in active \cup terminated => emitted'[1].to = {} ]_vars

\* C23: after a segment has been closed and handed to onChunkReady while
\* recording is enabled, the next recording cycle has begun: the recorder
\* records while the pipeline works on the utterance just emitted.
C23_RecordsWhilePipelineWorks ==
  (awaiting # <<>> /\ ap.isRecording) => ap.state = "recording"

\* C24: every recording cycle is closed no later than recordingInterval after
\* it started.  The timers have one delay and fire in the order they were
\* armed, so the timer of the cycle in progress is the last one pending: a
\* cycle that records has a timer pending, and a timer that fires leaves no
\* cycle recording, whether or not a silence close has occurred.
C24_CycleClosedByItsTimer ==
  [][ /\ ap'.state = "recording" => armed' > 0
      /\ armed' < armed => ap'.state # "recording" ]_vars

\* C24 witness: the timer has stopped a cycle in which speech went on, with no
\* reading below silenceThreshold counted, and the segment waits for onstop.
C24_Witness ==
  /\ stopEvent # <<>>
  /\ stopEvent[1].by = "interval"
  /\ stopEvent[1].speech
  /\ ap.isSpeaking
  /\ ap.consecutiveSilenceCount = 0
  /\ ap.state = "inactive"

(***************************************************************************)
(* Session: the utterances of one engine as its history records them       *)
(***************************************************************************)
\* the texts of the records before record id whose run passed the filter and
\* whose translation request succeeded, oldest first
AcceptedBefore(id) ==
  LET accepted(entry) == /\ entry.id < id
                          /\ entry.status = "translated"
                          /\ entry.id \notin failedIds
      entries == SelectSeq(transcriptionHistory, accepted)
  IN  [i \in 1..Len(entries) |-> Trimmed[entries[i].text]]

\* C25: the context passed to translation holds the texts of the most recent
\* previously accepted utterances of the session, at most contextWindowSize of
\* them, oldest first: never the current utterance nor one that was filtered,
\* discarded or ended in error.
C25_ContextOfAcceptedUtterances ==
  LET id == Len(transcriptionHistory)
  IN  (id > 0 /\ transcriptionHistory[id].status = "translated")
        => /\ Len(translationContext) <= contextWindowSize
           /\ translationContext = lastOf(AcceptedBefore(id), contextWindowSize)

\* C26: every utterance placed in the queue of an engine eventually begins
\* processing, provided every backend call returns or fails and every timer
\* fires: it is not pushed back behind later arrivals for ever.
C26_QueuedEventuallyProcessed ==
  \A id \in 1..MaxUtterances :
    (\E e \in Engines : \E i \in DOMAIN engine[e].processingQueue :
        engine[e].processingQueue[i].id = id)
      ~> (\E j \in jobs : j.blob.id = id)

(***************************************************************************)
(* Filter: the stages of shouldSkipRecord                                  *)
(***************************************************************************)
\* the stages in the order of the claim, and the stages a normalized text
\* matches by itself (the duplicate stage depends on the engine's state)
StageOrder == <<"empty", "artifact", "media_content", "short_or_filler", "duplicate">>
StagesMatched ==
  [text \in NormalizedTexts |->
     {stage \in {"empty", "artifact", "media_content", "short_or_filler"} :
        \/ stage = "empty" /\ text = ""
        \/ stage = "artifact" /\ isTranscriptionArtifact(text)
        \/ stage = "media_content" /\ containsMediaContent(text)
        \/ stage = "short_or_filler" /\ (text \in fillerWords \/ Len(text) < 2)}]

\* C27: the reason a run records is that of the first stage, in the order
\* empty, artifact, denylist, filler / too short, duplicate, that its text
\* matches; a text that matches no stage is not discarded: the run returns it
\* with its translation and it becomes the last processed text.
C27_FirstMatchingStage ==
  [][ (run' # NoRun /\ run'.reason \notin {"error", "no_speech"})
      => LET text == Normalized[run'.text]
             first(matched) ==
               CHOOSE i \in 1..5 :
                 /\ StageOrder[i] \in matched
                 /\ \A k \in 1..(i - 1) : StageOrder[k] \notin matched
             stage ==
               IF StagesMatched[text] # {}
               THEN StageOrder[first(StagesMatched[text])]
               ELSE IF isDuplicateOrRecent(text, lastProcessedText, recentTranscriptions)
               THEN StageOrder[5]
               ELSE "none"
         IN  /\ run'.reason = stage
             /\ IF run'.reason = "none"
                THEN run'.original = run'.text /\ lastProcessedText' = run'.text
                ELSE run'.original = "" ]_vars

\* C27 witness: a text that contains both an artifact phrase and a denylist
\* phrase has been recorded as an artifact.
C27_Witness ==
  /\ run.text = "visit otter.ai"
  /\ {"artifact", "media_content"} \subseteq StagesMatched[Normalized[run.text]]
  /\ run.reason = "artifact"

\* the normalized texts of the records whose run passed the filter, in the
\* order of their acceptance
AcceptedTexts ==
  LET accepted(entry) == entry.status = "translated"
      entries == SelectSeq(transcriptionHistory, accepted)
  IN  [i \in 1..Len(entries) |-> Normalized[entries[i].text]]

\* C28: the recent-text ring never holds more than maxRecentTranscriptions
\* entries and equals the most recent (up to 5) accepted normalized texts in
\* the order of their acceptance: a sixth entry evicts exactly the oldest.
C28_RingHoldsLastAccepted ==
  /\ Len(recentTranscriptions) <= maxRecentTranscriptions
  /\ recentTranscriptions = lastOf(AcceptedTexts, maxRecentTranscriptions)

\* C28 witness: six texts have been accepted and the ring holds the last
\* five of them, without the first.
C28_Witness ==
  /\ Len(AcceptedTexts) = 6
  /\ Len(recentTranscriptions) = 5
  /\ \A i \in 1..5 : recentTranscriptions[i] = AcceptedTexts[i + 1]
  /\ \A i \in 1..5 : recentTranscriptions[i] # AcceptedTexts[1]

\* C29: at most one flush of a connection is in flight: while one is, a
\* size-triggered (message), timer-triggered (tick) or forced (close, error)
\* attempt starts no backend call, the flush in flight goes on with its
\* frames, and the buffer keeps its contents (a message adds its frame).
C29_SingleFlightKeepsBuffer ==
  [][ (isTranslating /\ wsOp' \in {"message", "tick", "close", "error"})
      => /\ flushed' = flushed
         /\ isTranslating' /\ frames' = frames
         /\ Len(pcmBuffers') >= Len(pcmBuffers)
         /\ SubSeq(pcmBuffers', 1, Len(pcmBuffers)) = pcmBuffers ]_vars

\* C30: two calls that are live at the same time never share a callId: a
\* call:place creates its call (call:ringing is returned) under a callId whose
\* room is empty, so that no earlier call of the same pair that has not
\* terminated is relayed through the room of the new one.
C30_NewCallTakesFreeRoom ==
  [][ (/\ lastOp'.op = "call:place"
       /\ emitted'[Len(emitted')].ev = "call:ringing")
      => rooms[CallIdOf(lastOp'.sock, lastOp'.arg[1])] = {} ]_vars

(***************************************************************************)
(* Segmenter: the readings of the silence detection                        *)
(***************************************************************************)
\* this step is a run of the interval callback with a reading that is in the
\* band silenceThreshold .. speechStartThreshold, or that is below
\* silenceThreshold while isSpeaking is false
IdleReading ==
  \E level \in Levels, size \in Sizes :
    /\ Tick(level, size)
    /\ \/ level >= silenceThreshold /\ level <= speechStartThreshold
       \/ level < silenceThreshold /\ ~ap.isSpeaking

\* this step is a run of the interval callback with a reading above
\* speechStartThreshold
SpeechReading ==
  \E level \in Levels, size \in Sizes :
    Tick(level, size) /\ level > speechStartThreshold

\* C31: a reading in the band silenceThreshold <= level <= speechStartThreshold,
\* or a reading below silenceThreshold while isSpeaking is false, leaves
\* isSpeaking, consecutiveSilenceCount, lastSpeechTime (the time since it only
\* grows by the tick) and hasDetectedSpeech unchanged; the silence counter is
\* reset to 0 only by a reading above speechStartThreshold or by the close
\* of the silence detection.
C31_IdleReadingChangesNothing ==
  [][ /\ IdleReading =>
           /\ ap'.isSpeaking = ap.isSpeaking
           /\ ap'.consecutiveSilenceCount = ap.consecutiveSilenceCount
           /\ ap'.hasDetectedSpeech = ap.hasDetectedSpeech
           /\ ap'.sinceSpeech = IF ap.sinceSpeech + TickMs < debounceDelay
                                THEN ap.sinceSpeech + TickMs ELSE debounceDelay
      /\ (ap.consecutiveSilenceCount > 0 /\ ap'.consecutiveSilenceCount = 0)
           => SpeechReading \/ SilenceTriggered ]_vars

\* C31 witness: while isSpeaking is set, more ticks have passed since the last
\* speech reading than were counted as silence: the others were readings in
\* the band, and the counter kept its value over them.
C31_Witness ==
  /\ ap.isRecording
  /\ ap.isSpeaking
  /\ ap.consecutiveSilenceCount = 2
  /\ ap.sinceSpeech = 4 * TickMs

(***************************************************************************)
(* Relay: sockets outside a call                                           *)
(***************************************************************************)
\* the handler run op is one that names a call, sent by a socket that is not
\* a participant of that call while both participants are in its room
FromOutsider(op) ==
  /\ op.op \in {"call:accept", "call:decline", "call:hangup", "webrtc:ice",
                "translation:text", "translation:audio"}
  /\ InCall(op.arg)
  /\ op.sock \notin {CallerOf(op.arg), WorkerOf(op.arg)}

\* C32: a socket that is not a participant of call c cannot affect c: an
\* accept, decline, hangup, ice-candidate or translation message it sends naming
\* c's callId is not delivered to c's participants, does not remove them from
\* the room of the call, and does not change the busy flag of c's worker.
C32_OutsiderCannotAffectCall ==
  [][ FromOutsider(lastOp')
      => /\ \A i \in DOMAIN emitted' :
              emitted'[i].via = "socket.to"
                => emitted'[i].to \cap rooms[lastOp'.arg] = {}
         /\ rooms'[lastOp'.arg] = rooms[lastOp'.arg]
         /\ agents'[WorkerOf(lastOp'.arg)].busy = agents[WorkerOf(lastOp'.arg)].busy
    ]_vars

(***************************************************************************)
(* Segmenter: the recordingInterval timers                                 *)
(***************************************************************************)
\* C33: a recordingInterval timer armed at the start of one recording cycle
\* only ever closes that cycle.  The timers fire in the order they were armed
\* and the cycle in progress armed the last of them, so a timer that stops
\* the recorder is the only one pending: a timer left over from a cycle that
\* silence detection has closed stops no later cycle.
C33_StaleTimerStopsNothing ==
  [][ (armed' < armed /\ ap.state = "recording" /\ ap'.state = "inactive")
      => armed = 1 ]_vars

(***************************************************************************)
(* Relay: the two flags of a worker                                        *)
(***************************************************************************)
\* C34: agent:setAvailable changes only the available flag of the worker that
\* sent it and no busy flag, so a busy worker that sets itself available is
\* still listed as not available; call:place, call:decline and call:hangup
\* change only busy flags and no available flag, so a worker that set itself
\* unavailable during a call is still unavailable after the call has ended.
C34_FlagsChangeSeparately ==
  [][ /\ lastOp'.op = "agent:setAvailable"
           => /\ DOMAIN agents' = DOMAIN agents
              /\ \A id \in DOMAIN agents :
                   /\ agents'[id].busy = agents[id].busy
                   /\ id # lastOp'.sock
                        => agents'[id].available = agents[id].available
                   /\ agents'[id].busy => ~emitted'[1].body[id]
              /\ HasAgent(lastOp'.sock)
                   => agents'[lastOp'.sock].available = lastOp'.arg[1]
      /\ lastOp'.op \in {"call:place", "call:decline", "call:hangup"}
           => /\ DOMAIN agents' = DOMAIN agents
              /\ \A id \in DOMAIN agents :
                   agents'[id].available = agents[id].available ]_vars

\* C34 witness: the worker of a call has hung up, the caller has been told,
\* and the worker, who set itself unavailable during the call, is not busy
\* and still unavailable.
C34_Witness ==
  /\ lastOp.op = "call:hangup"
  /\ lastOp.sock = WorkerOf(lastOp.arg)
  /\ emitted[1].to = {CallerOf(lastOp.arg)}
  /\ HasAgent(lastOp.sock)
  /\ ~agents[lastOp.sock].available
  /\ ~agents[lastOp.sock].busy

(***************************************************************************)
(* Streaming endpoint: the frames of the flushes                           *)
(***************************************************************************)
\* the frames of seq are in the order of their arrival
InArrivalOrder(seq) ==
  \A i, j \in 1..Len(seq) : i < j => seq[i].id < seq[j].id

\* a step in which the flush in flight ends with translatePcmChunk resolved
FlushCompleted == isTranslating /\ wsOp' = "translated"

\* C35: the frames of every flush input are in arrival order, and each
\* received frame is contained in at most one flush that completes
\* successfully: a flush that completes holds no frame of a flush that
\* completed before it.
C35_FramesOrderedFlushedOnce ==
  [][ /\ FlushStart => InArrivalOrder(frames')
      /\ FlushCompleted => Ids(frames) \cap completed = {} ]_vars

\* C35 witness: a flush has just completed, and each of the three or more
\* frames received so far was in a flush that completed
C35_Witness ==
  /\ wsOp = "translated"
  /\ received > 2
  /\ completed = 1..received
  /\ cleared = {}

(***************************************************************************)
(* Playback: one clip at a time                                            *)
(***************************************************************************)
\* C36: received translated-audio clips are played one at a time in arrival
\* order: at most one clip is playing at any instant, and a clip starts only
\* after the previous one has ended and later than every clip that arrived
\* before it, also in a call that follows a call ended while a clip was
\* playing.
C36_OneClipAtATime ==
  [][ /\ Cardinality(playing') <= 1
      /\ \A c \in playing' \ playing : c > lastPlayed ]_vars

(***************************************************************************)
(* Session: what a run leaves of itself in the engine                      *)
(***************************************************************************)
\* this step is a run of processOutgoingAudioLocal on the engine
RunStep == Len(transcriptionHistory') = Len(transcriptionHistory) + 1

\* the record of the run of this step
RunRecord == transcriptionHistory'[Len(transcriptionHistory')]

\* C37: an utterance discarded by a filter stage (empty, artifact, denylist,
\* filler or too short, duplicate) leaves the recent-text ring,
\* lastProcessedText and lastProcessTime unchanged; only an utterance that
\* completes translation and synthesis updates them.
C37_OnlyCompletedRunsLeaveTraces ==
  [][ RunStep =>
        /\ RunRecord.status \in {"discarded", "filtered"}
             => UNCHANGED <<recentTranscriptions, lastProcessedText, lastProcessTime>>
        /\ <<recentTranscriptions, lastProcessedText, lastProcessTime>>'
               # <<recentTranscriptions, lastProcessedText, lastProcessTime>>
             => /\ RunRecord.status = "translated"
                /\ RunRecord.id \notin failedIds' ]_vars

(***************************************************************************)
(* calculateSimilarity: its values                                         *)
(***************************************************************************)
\* C38: calculateSimilarity is symmetric: for all normalized texts a and b
\* the similarity of a to b is the similarity of b to a, so that both exceed
\* the threshold 0.8 of a near-duplicate or neither does.
C38_SimilaritySymmetric ==
  (simAB # NoSimilarity /\ simBA # NoSimilarity)
    => /\ simAB.num * simBA.den = simBA.num * simAB.den
       /\ Exceeds(simAB) <=> Exceeds(simBA)

\* C39: calculateSimilarity returns a value between 0 and 1 inclusive: twice
\* the number of common words never exceeds the number of words of the two
\* texts together, also when a text repeats a word that occurs in the other.
C39_SimilarityInUnitInterval ==
  simAB # NoSimilarity
    => /\ simAB.den > 0
       /\ 0 <= simAB.num
       /\ simAB.num <= simAB.den

====
